---- MODULE Spec2Model ----
(***************************************************************************)
(* A model of threat-grapher: the visibility scorer (dettect/visibility.py),*)
(* the coverage cross-reference (dettect/coverage.py), the graph aggregator *)
(* (graph/builder.py), the entity extractor (graph/entities.py) and the     *)
(* key-value and JSON parsers (parsers/keyvalue.py, parsers/json_logs.py).  *)
(*                                                                         *)
(* Numbers that Python computes as quotients (coverage_pct, quality_avg)    *)
(* are exact rationals [num, den]; round(x, n) is modelled as rounding to   *)
(* n decimals (half to even), its value kept as an integer count of         *)
(* 10^-n units.                                                             *)
(***************************************************************************)
EXTENDS Integers, Sequences, FiniteSets, TLC

VARIABLES
    coverage_pct,     \* _compute_score: argument coverage_pct
    quality_avg,      \* _compute_score: argument quality_avg
    score,            \* _compute_score: the value returned ("none" before the call)
    stix_techniques,  \* stix_data['techniques']: mitre_id -> required components
    detected,         \* coverage: detected component names (keys of detected_components)
    ds_admin,         \* data-quality ratings in use: component name -> data_quality
    ds_admin_on_file, \* what load_data_sources_admin returned: the store on file
                      \* at startup, empty when there is none ("unread" before)
    coverage_result,  \* the value analyze_coverage returned ("none" before)
    visibility,       \* the value calculate_visibility returned ("none" before)
    pc,               \* position of the startup pipeline of create_app
    entity_type,      \* _node: argument entity_type
    value1,           \* _node: the raw value of a first call
    value2,           \* _node: the raw value of a second call
    node1,            \* _node: what the first call returned
    node2,            \* _node: what the second call returned
    source,           \* what a parser reads: the lines of a file, a JSON object
    max_events,       \* the parser's argument max_events
    format_type,      \* build_graph: argument format_type
    allowed_eids,     \* build_graph: argument allowed_eids (None is {})
    events,           \* build_graph: argument events, what the parser returned
    G,                \* the graph build_graph returned
    file,             \* a file on disk: its path, what the file system tells, its lines
    sourcetype,       \* detect_format, load_file: argument sourcetype (None is <<>>)
    formats,          \* what the calls of detect_format returned, in order
    result,           \* the value load_file returned ("none" before the call)
    calls,            \* the parsers load_file called
    bundle,           \* load_stix_data: the objects of the bundle json.load returned
    stix_data,        \* the value load_stix_data returned ("none" before the call)
    scanner,          \* parse_keyvalue_events: events, current_event, current_key,
                      \* in_message while the file is read
    lineno,           \* parse_keyvalue_events: the number of lines read
    sampled,          \* analyze_coverage: the sampled .log records, in sample order
    json_sample,      \* analyze_coverage: the sampled .json records, in sample order
    sample_pos,       \* analyze_coverage: the records of the running loop taken so far
    sample_detected   \* analyze_coverage: the dict detected of phase 2

scoreVars == <<coverage_pct, quality_avg, score>>
pipeVars_data ==
    <<stix_techniques, detected, ds_admin, ds_admin_on_file, coverage_result, visibility>>
pipeVars == <<pipeVars_data, pc>>
nodeVars == <<entity_type, value1, value2, node1, node2>>
graphVars == <<source, max_events, format_type, allowed_eids, events, G>>
loadVars == <<file, sourcetype, formats, result, calls>>
stixVars == <<bundle, stix_data>>
scanVars == <<scanner, lineno>>
sampleVars == <<sampled, json_sample, sample_pos, sample_detected>>
vars ==
    <<scoreVars, pipeVars, nodeVars, graphVars, loadVars, stixVars, scanVars, sampleVars>>

(***************************************************************************)
(* Rationals                                                               *)
(***************************************************************************)
Rat(n, d) == [num |-> n, den |-> d]
RLt(a, b) == a.num * b.den < b.num * a.den
RLeq(a, b) == a.num * b.den <= b.num * a.den
RGeq(a, b) == RLeq(b, a)
REq(a, b) == a.num * b.den = b.num * a.den

Abs(i) == IF i < 0 THEN -i ELSE i

\* The integer nearest to n/d (n >= 0, d > 0), a tie going to the even one.
RoundHalfEven(n, d) ==
    LET q == n \div d
        r == n % d
    IN  IF 2 * r < d THEN q
        ELSE IF 2 * r > d THEN q + 1
        ELSE IF q % 2 = 0 THEN q ELSE q + 1

\* round(x, 1) in tenths, round(x, 2) in hundredths
Round1(x) == RoundHalfEven(10 * x.num, x.den)
Round2(x) == RoundHalfEven(100 * x.num, x.den)

RECURSIVE SumSeq(_)
SumSeq(s) == IF s = <<>> THEN 0 ELSE Head(s) + SumSeq(Tail(s))

\* [x for x in s if Test(x)]
RECURSIVE Filter(_, _)
Filter(s, keep) ==
    IF s = <<>> THEN <<>>
    ELSE IF Head(s) \in keep THEN <<Head(s)>> \o Filter(Tail(s), keep)
    ELSE Filter(Tail(s), keep)

Range(s) == {s[i] : i \in DOMAIN s}

(***************************************************************************)
(* dettect/visibility.py: _compute_score                                   *)
(***************************************************************************)
\* (mutant) the 50% boundary put in the band below
ComputeScoreHalfIsTwo(cov, q) ==
    IF RLeq(cov, Rat(0, 1)) THEN 0
    ELSE LET base == IF RLt(cov, Rat(25, 1)) THEN 1
                     ELSE IF RLeq(cov, Rat(50, 1)) THEN 2
                     ELSE IF RLt(cov, Rat(75, 1)) THEN 3
                     ELSE 4
         IN  IF RGeq(cov, Rat(75, 1)) /\ RGeq(q, Rat(7, 2)) THEN 5
             ELSE IF RGeq(cov, Rat(75, 1)) /\ RGeq(q, Rat(2, 1)) THEN 4
             ELSE base

\* (mutant) coverage from 75% up with a quality of zero scored 1, after the
\* docstring's "coverage with zero quality scores"
ComputeScoreZeroQualityIsOne(cov, q) ==
    IF RLeq(cov, Rat(0, 1)) THEN 0
    ELSE LET base == IF RLt(cov, Rat(25, 1)) THEN 1
                     ELSE IF RLt(cov, Rat(50, 1)) THEN 2
                     ELSE IF RLt(cov, Rat(75, 1)) THEN 3
                     ELSE 4
         IN  IF RGeq(cov, Rat(75, 1)) /\ RGeq(q, Rat(7, 2)) THEN 5
             ELSE IF RGeq(cov, Rat(75, 1)) /\ RGeq(q, Rat(2, 1)) THEN 4
             ELSE IF RGeq(cov, Rat(75, 1)) /\ RLeq(q, Rat(0, 1)) THEN 1
             ELSE base

\* (mutant) the boost to 5 given for quality alone, at any coverage above 0
ComputeScoreFiveOnQualityAlone(cov, q) ==
    IF RLeq(cov, Rat(0, 1)) THEN 0
    ELSE LET base == IF RLt(cov, Rat(25, 1)) THEN 1
                     ELSE IF RLt(cov, Rat(50, 1)) THEN 2
                     ELSE IF RLt(cov, Rat(75, 1)) THEN 3
                     ELSE 4
         IN  IF RGeq(q, Rat(7, 2)) THEN 5
             ELSE IF RGeq(cov, Rat(75, 1)) /\ RGeq(q, Rat(2, 1)) THEN 4
             ELSE base

_compute_score(cov, q) ==
    IF RLeq(cov, Rat(0, 1)) THEN 0
    ELSE LET base == IF RLt(cov, Rat(25, 1)) THEN 1
                     ELSE IF RLt(cov, Rat(50, 1)) THEN 2
                     ELSE IF RLt(cov, Rat(75, 1)) THEN 3
                     ELSE IF RLt(cov, Rat(100, 1)) THEN 4
                     ELSE 4
         IN  IF RGeq(cov, Rat(75, 1)) /\ RGeq(q, Rat(7, 2)) THEN 5
             ELSE IF RGeq(cov, Rat(75, 1)) /\ RGeq(q, Rat(2, 1)) THEN 4
             ELSE base

(***************************************************************************)
(* Strings.  A Python str is a sequence of atoms; an atom is one character,*)
(* or a run of characters that no operation modelled here splits (a label  *)
(* of the program text such as "NOT_TRANSLATED", an event id such as       *)
(* "4688").  "" is <<>>.                                                   *)
(***************************************************************************)
WhiteSpace == {" ", "\t", "\n", "\r"}

\* str.lower on one atom: the atoms with upper-case letters the model uses
LowerAtom(a) ==
    CASE a = "A" -> "a"
      [] a = "B" -> "b"
      [] a = "C" -> "c"
      [] a = "U" -> "u"
      [] a = "NOT_TRANSLATED" -> "not_translated"
      [] a = "HOST" -> "host"
      [] a = "New" -> "new"
      [] a = "Creator" -> "creator"
      [] a = "Parent" -> "parent"
      [] a = "Process" -> "process"
      [] a = "Service" -> "service"
      [] a = "File" -> "file"
      [] a = "Name" -> "name"
      [] a = "Source" -> "source"
      [] a = "Network" -> "network"
      [] a = "Address" -> "address"
      [] a = "CreateUser" -> "createuser"
      [] a = "GET" -> "get"
      [] a = "XmlWinEventLog" -> "xmlwineventlog"
      [] a = "CloudTrail" -> "cloudtrail"
      [] a = "WinEventLog" -> "wineventlog"
      [] a = "Security" -> "security"
      [] a = ".JSON" -> ".json"
      [] OTHER -> a

\* str.lower
Lower(s) == [i \in DOMAIN s |-> LowerAtom(s[i])]

RECURSIVE LStrip(_)
LStrip(s) ==
    IF s # <<>> /\ Head(s) \in WhiteSpace THEN LStrip(Tail(s)) ELSE s

RECURSIVE RStripSet(_, _)
RStripSet(s, chars) ==
    IF s # <<>> /\ s[Len(s)] \in chars
        THEN RStripSet(SubSeq(s, 1, Len(s) - 1), chars)
        ELSE s

\* str.strip(), str.rstrip(c)
Strip(s) == RStripSet(LStrip(s), WhiteSpace)
RStripChar(s, c) == RStripSet(s, {c})

\* str.replace('\\\\', '\\'): each pair of backslashes, found left to right
\* without overlap, becomes one backslash
RECURSIVE ReplaceDoubleBackslash(_)
ReplaceDoubleBackslash(s) ==
    IF Len(s) >= 2 /\ s[1] = "\\" /\ s[2] = "\\"
        THEN <<"\\">> \o ReplaceDoubleBackslash(SubSeq(s, 3, Len(s)))
    ELSE IF s = <<>> THEN <<>>
    ELSE <<Head(s)>> \o ReplaceDoubleBackslash(Tail(s))

\* value[:n]
Take(s, n) == SubSeq(s, 1, IF Len(s) < n THEN Len(s) ELSE n)

\* os.path.basename (posixpath): what follows the last "/"
RECURSIVE Basename(_)
Basename(s) ==
    IF \E i \in DOMAIN s : s[i] = "/"
        THEN Basename(Tail(s))
        ELSE s

(***************************************************************************)
(* parsers/keyvalue.py.  A file is the sequence of its lines, a line a str *)
(* without its line end; a dict is a function on its keys, {} is <<>>.     *)
(***************************************************************************)
\* the atoms \d{2}/\d{2}/\d{4}, \d{1,2}:\d{2}:\d{2} and (?:AM|PM) match
DateAtoms == {"01/02/2023"}
ClockAtoms == {"3:04:05", "15:04:05"}
MeridiemAtoms == {"AM", "PM"}

\* the least index from i on whose atom is no whitespace; Len + 1 if none
RECURSIVE SkipWhiteSpace(_, _)
SkipWhiteSpace(s, i) ==
    IF i <= Len(s) /\ s[i] \in WhiteSpace THEN SkipWhiteSpace(s, i + 1) ELSE i

\* TIMESTAMP_RE.match
TIMESTAMP_RE(s) ==
    LET i == SkipWhiteSpace(s, 2)
        j == SkipWhiteSpace(s, i + 1)
    IN  /\ Len(s) >= 5
        /\ s[1] \in DateAtoms
        /\ i > 2 /\ i <= Len(s) /\ s[i] \in ClockAtoms
        /\ j > i + 1 /\ j = Len(s) /\ s[j] \in MeridiemAtoms

\* the atoms of [A-Za-z_][A-Za-z0-9_]* and of [A-Za-z0-9_ ]*
WordAtoms ==
    {"EventCode", "Message", "ComputerName", "User", "LogName", "New", "Creator",
     "Parent", "Process", "Service", "File", "Name", "Source", "Network",
     "Address", "a", "A", "b", "C", "created", "svc", "bob", "host", "HOST",
     "Timestamp"}
KeyAtoms == WordAtoms \cup {" ", "4688", "4624", "1234"}

_is_valid_key(key) ==
    /\ key # <<>>
    /\ key[1] \in WordAtoms
    /\ \A i \in DOMAIN key : key[i] \in KeyAtoms

\* the str as a key of a dict
RECURSIVE Join(_)
Join(s) == IF s = <<>> THEN "" ELSE Head(s) \o Join(Tail(s))

\* len(str)
RECURSIVE StrLen(_)
StrLen(s) == IF s = <<>> THEN 0 ELSE Len(Head(s)) + StrLen(Tail(s))

\* event.get(key, '') (and event.get(key), whose None is as false as '')
Get(event, key) == IF key \in DOMAIN event THEN event[key] ELSE <<>>

\* d[key] = value
SetItem(d, key, value) == (key :> value) @@ d

\* the messages of the model are shorter than 500 characters; one longer
\* is taken to have one character an atom
_finalize_event(event) ==
    LET msg == Get(event, "Message")
        stripped == SetItem(event, "Message", Strip(msg))
    IN  IF msg = <<>> THEN event
        ELSE IF StrLen(msg) > 500
            THEN SetItem(stripped, "MessagePreview", Take(msg, 500) \o <<"...">>)
        ELSE stripped

\* line.partition('='): what is before the first "=", what is after it
RECURSIVE BeforeEquals(_)
BeforeEquals(line) ==
    IF line = <<>> \/ Head(line) = "=" THEN <<>>
    ELSE <<Head(line)>> \o BeforeEquals(Tail(line))
AfterEquals(line) == SubSeq(line, Len(BeforeEquals(line)) + 2, Len(line))

\* the scanner before the first line; current_key None is ""; returned is
\* set by the return of line 28
ScanStart ==
    [events |-> <<>>, current_event |-> <<>>, current_key |-> "",
     in_message |-> FALSE, returned |-> FALSE]

\* (mutant) a Key=Value line sets its field inside a message too
ScanLineFieldsInsideMessage(st, raw, max) ==
    LET line == RStripSet(raw, {"\n", "\r"})
        key == Strip(BeforeEquals(line))
        ev == st.current_event
    IN  IF st.returned THEN st
        ELSE IF TIMESTAMP_RE(Strip(line)) THEN
            LET flushed == IF ev # <<>> THEN Append(st.events, _finalize_event(ev))
                           ELSE st.events
            IN  IF ev # <<>> /\ max # 0 /\ Len(flushed) >= max
                    THEN [st EXCEPT !.events = flushed, !.returned = TRUE]
                    ELSE [events |-> flushed,
                          current_event |-> "Timestamp" :> Strip(line),
                          current_key |-> "", in_message |-> FALSE,
                          returned |-> FALSE]
        ELSE IF ev = <<>> THEN st
        ELSE IF /\ "=" \in Range(line)
                /\ Head(line) \notin {" ", "\t"}
                /\ _is_valid_key(key)
            THEN [st EXCEPT
                    !.current_event = SetItem(ev, Join(key), Strip(AfterEquals(line))),
                    !.current_key = Join(key),
                    !.in_message = (st.in_message \/ Join(key) = "Message")]
        ELSE IF st.in_message /\ st.current_key = "Message"
            THEN [st EXCEPT !.current_event =
                    SetItem(ev, "Message", Get(ev, "Message") \o <<"\n">> \o line)]
        ELSE IF st.current_key # "" /\ Strip(line) # <<>>
            THEN [st EXCEPT !.current_event =
                    SetItem(ev, st.current_key,
                            Get(ev, st.current_key) \o <<"\n">> \o line)]
        ELSE st

\* one turn of the loop of lines 20-50
ScanLine(st, raw, max) ==
    LET line == RStripSet(raw, {"\n", "\r"})
        key == Strip(BeforeEquals(line))
        ev == st.current_event
    IN  IF st.returned THEN st
        ELSE IF TIMESTAMP_RE(Strip(line)) THEN
            LET flushed == IF ev # <<>> THEN Append(st.events, _finalize_event(ev))
                           ELSE st.events
            IN  IF ev # <<>> /\ max # 0 /\ Len(flushed) >= max
                    THEN [st EXCEPT !.events = flushed, !.returned = TRUE]
                    ELSE [events |-> flushed,
                          current_event |-> "Timestamp" :> Strip(line),
                          current_key |-> "", in_message |-> FALSE,
                          returned |-> FALSE]
        ELSE IF ev = <<>> THEN st
        ELSE IF /\ ~st.in_message
                /\ "=" \in Range(line)
                /\ Head(line) \notin {" ", "\t"}
                /\ _is_valid_key(key)
            THEN [st EXCEPT
                    !.current_event = SetItem(ev, Join(key), Strip(AfterEquals(line))),
                    !.current_key = Join(key),
                    !.in_message = (st.in_message \/ Join(key) = "Message")]
        ELSE IF st.in_message /\ st.current_key = "Message"
            THEN [st EXCEPT !.current_event =
                    SetItem(ev, "Message", Get(ev, "Message") \o <<"\n">> \o line)]
        ELSE IF st.current_key # "" /\ Strip(line) # <<>>
            THEN [st EXCEPT !.current_event =
                    SetItem(ev, st.current_key,
                            Get(ev, st.current_key) \o <<"\n">> \o line)]
        ELSE st

RECURSIVE ScanLines(_, _, _)
ScanLines(st, lines, max) ==
    IF lines = <<>> THEN st
    ELSE ScanLines(ScanLine(st, Head(lines), max), Tail(lines), max)

parse_keyvalue_events(lines, max) ==
    LET st == ScanLines(ScanStart, lines, max)
    IN  IF ~st.returned /\ st.current_event # <<>>
            THEN Append(st.events, _finalize_event(st.current_event))
            ELSE st.events

(***************************************************************************)
(* parsers/json_logs.py: _flatten_json.  A decoded JSON value is a str, a  *)
(* null, a dict (its items in order) or a list.                            *)
(***************************************************************************)
JStr(v) == [kind |-> "str", v |-> v]
JNull == [kind |-> "null"]
JDict(items) == [kind |-> "dict", items |-> items]
JList(items) == [kind |-> "list", items |-> items]
Item(key, value) == [key |-> key, value |-> value]

\* str(obj): a str is itself; a dict and a list are written as Python
\* writes them, their strs quoted
RECURSIVE Repr(_)
RECURSIVE ReprItems(_, _)
Repr(obj) ==
    IF obj.kind = "str" THEN <<"'">> \o obj.v \o <<"'">>
    ELSE IF obj.kind = "null" THEN <<"None">>
    ELSE IF obj.kind = "dict" THEN <<"{">> \o ReprItems(obj.items, TRUE) \o <<"}">>
    ELSE <<"[">> \o ReprItems(obj.items, FALSE) \o <<"]">>
ReprItems(items, keyed) ==
    IF items = <<>> THEN <<>>
    ELSE (IF keyed THEN <<"'", Head(items).key, "'", ":", " ">> \o Repr(Head(items).value)
          ELSE Repr(Head(items)))
         \o (IF Len(items) > 1 THEN <<",", " ">> ELSE <<>>)
         \o ReprItems(Tail(items), keyed)

\* str(obj) if obj is not None else ''
StrOrEmpty(obj) ==
    IF obj.kind = "null" THEN <<>>
    ELSE IF obj.kind = "str" THEN obj.v
    ELSE Repr(obj)

\* _flatten_recursive, returning the flat dict it fills; FlattenDict and
\* FlattenList are its two loops, from item i on
RECURSIVE _flatten_recursive(_, _, _, _, _)
RECURSIVE FlattenDict(_, _, _, _, _)
RECURSIVE FlattenList(_, _, _, _, _, _)
_flatten_recursive(obj, prefix, flat, depth, max_depth) ==
    IF depth >= max_depth THEN SetItem(flat, prefix, StrOrEmpty(obj))
    ELSE IF obj.kind = "dict"
        THEN FlattenDict(obj.items, prefix, flat, depth, max_depth)
    ELSE IF obj.kind = "list"
        THEN IF Len(obj.items) <= 5
                 THEN FlattenList(obj.items, 0, prefix, flat, depth, max_depth)
                 ELSE SetItem(flat, prefix, Repr(obj))
    ELSE SetItem(flat, prefix, StrOrEmpty(obj))
FlattenDict(items, prefix, flat, depth, max_depth) ==
    IF items = <<>> THEN flat
    ELSE LET new_key == IF prefix # "" THEN prefix \o "." \o Head(items).key
                        ELSE Head(items).key
         IN  FlattenDict(Tail(items), prefix,
                         _flatten_recursive(Head(items).value, new_key, flat,
                                            depth + 1, max_depth),
                         depth, max_depth)
FlattenList(items, i, prefix, flat, depth, max_depth) ==
    IF items = <<>> THEN flat
    ELSE LET new_key == prefix \o "[" \o ToString(i) \o "]"
         IN  FlattenList(Tail(items), i + 1, prefix,
                         _flatten_recursive(Head(items), new_key, flat,
                                            depth + 1, max_depth),
                         depth, max_depth)

\* _flatten_json(obj), prefix '' and max_depth 3
_flatten_json(obj) == _flatten_recursive(obj, "", <<>>, 0, 3)

\* the loop of parse_json_events over the decoded items, lines 17-21
RECURSIVE FlattenItems(_, _, _)
FlattenItems(data, evs, max) ==
    IF data = <<>> THEN evs
    ELSE LET appended == IF Head(data).kind = "dict"
                             THEN Append(evs, _flatten_json(Head(data)))
                             ELSE evs
         IN  IF Head(data).kind = "dict" /\ max # 0 /\ Len(appended) >= max
                 THEN appended
                 ELSE FlattenItems(Tail(data), appended, max)

(***************************************************************************)
(* parsers/detect.py: detect_format.  A file is its path, whether open()   *)
(* succeeds on it, and its lines; its text is the lines, each with its     *)
(* line end.                                                               *)
(***************************************************************************)
\* a run of 1000 "#" characters, one atom
Pad == "#...#"

\* len() of one atom, of a str
AtomLen(a) == IF a = Pad THEN 1000 ELSE Len(a)

\* the text of a file of these lines
RECURSIVE Content(_)
Content(lines) ==
    IF lines = <<>> THEN <<>>
    ELSE Head(lines) \o <<"\n">> \o Content(Tail(lines))

\* len() of a str
RECURSIVE StrLenOf(_)
StrLenOf(text) == IF text = <<>> THEN 0 ELSE AtomLen(Head(text)) + StrLenOf(Tail(text))

\* the first n characters of a str; a run that reaches over the n-th
\* character is cut and its rest matches nothing the detector looks for
RECURSIVE Read(_, _)
Read(text, n) ==
    IF text = <<>> \/ AtomLen(Head(text)) > n THEN <<>>
    ELSE <<Head(text)>> \o Read(Tail(text), n - AtomLen(Head(text)))

\* f.read(n) on a file of these lines: its first n characters
RECURSIVE ReadFile(_, _)
ReadFile(lines, n) ==
    IF lines = <<>> THEN <<>>
    ELSE LET line == Head(lines) \o <<"\n">>
         IN  IF StrLenOf(line) <= n
                 THEN line \o ReadFile(Tail(lines), n - StrLenOf(line))
                 ELSE Read(line, n)

\* head.startswith(atom); atom + '=' in head
StartsWith(head, atom) == head # <<>> /\ head[1] = atom
ContainsKey(head, atom) ==
    \E i \in 1..(Len(head) - 1) : head[i] = atom /\ head[i + 1] = "="

\* the atoms \d{4}-\d{2}-\d{2} and \d{2}:\d{2}:\d{2} match
IsoDateAtoms == {"2023-01-02"}
IsoTimeAtoms == {"03:04:05"}

\* re.match(r'\d{4}-\d{2}-\d{2}\s+\d{2}:\d{2}:\d{2}', head)
DateTimePrefix(head) ==
    LET i == SkipWhiteSpace(head, 2)
    IN  /\ Len(head) >= 3
        /\ head[1] \in IsoDateAtoms
        /\ i > 2 /\ i <= Len(head) /\ head[i] \in IsoTimeAtoms

\* str.split('\n'): the lines of a text, each from after a line end (or
\* the start) to before the next line end (or the end)
SplitLines(text) ==
    LET ends == SelectSeq([i \in 1..Len(text) |-> i], LAMBDA i : text[i] = "\n")
                \o <<Len(text) + 1>>
    IN  [k \in DOMAIN ends |->
            SubSeq(text, IF k = 1 THEN 1 ELSE ends[k - 1] + 1, ends[k] - 1)]

\* sum(1 for line in head.split('\n') if '=' in line): the lines of the
\* head, each from where it starts to the next line end, that hold a '='
LinesWithEq(head) ==
    LET starts == {1} \cup {i + 1 : i \in {j \in DOMAIN head : head[j] = "\n"}}
        HasEq(start) ==
            \E k \in start..Len(head) :
                /\ head[k] = "="
                /\ \A j \in start..k : head[j] # "\n"
    IN  Cardinality({start \in starts : HasEq(start)})

\* lines 34-55: the structural rules on the head read
StructuralRules(head) ==
    IF StartsWith(head, "<Event") THEN "xml_sysmon"
    ELSE IF StartsWith(head, "{") THEN "json"
    ELSE IF StartsWith(head, "[") THEN "json"
    ELSE IF ContainsKey(head, "LogName") /\ ContainsKey(head, "EventCode")
        THEN "keyvalue"
    ELSE IF DateTimePrefix(head) THEN "exchange"
    ELSE IF "=" \in Range(head) /\ "\n" \in Range(head) /\ LinesWithEq(head) >= 3
        THEN "keyvalue"
    ELSE "unknown"

\* lines 16-55: no hint decided
DetectFromFile(f) ==
    LET json_path == Lower(f.path)[Len(f.path)] = ".json"
        head500 == LStrip(ReadFile(f.lines, 500))
        head1000 == LStrip(ReadFile(f.lines, 1000))
    IN  IF json_path /\ ~f.readable THEN "json"
        ELSE IF json_path /\ (StartsWith(head500, "{") \/ StartsWith(head500, "["))
            THEN "json"
        ELSE IF json_path /\ DateTimePrefix(head500) THEN "exchange"
        ELSE IF ~f.readable THEN "unknown"
        ELSE StructuralRules(head1000)

\* the str holds the substring
Contains(st, atom) == atom \in Range(st)

detect_format(f, hint) ==
    LET st == Lower(hint)
    IN  IF hint # <<>> /\ (Contains(st, "xmlwineventlog") \/ Contains(st, "sysmon"))
            THEN "xml_sysmon"
        ELSE IF hint # <<>> /\ (Contains(st, "json") \/ Contains(st, "cloudtrail"))
            THEN "json"
        ELSE DetectFromFile(f)

(***************************************************************************)
(* graph/entities.py: _node, _short_label, _edge                           *)
(***************************************************************************)
\* None
None == <<>>

ENTITY_TYPES ==
    {"process", "file", "host", "user", "ip", "service", "registry",
     "driver", "hash", "api_call", "resource", "dns"}

_short_label(value, etype) ==
    IF etype \in {"process", "file", "driver"}
        THEN LET name == Basename(RStripChar(RStripChar(Strip(value), "\\"), "/"))
             IN  IF name # <<>> THEN name ELSE Take(value, 40)
    ELSE IF Len(value) > 50 THEN Take(value, 47) \o <<".", ".", ".">>
    ELSE value

\* _node(entity_type, value, label): None, or the node id with its
\* attributes; label <<>> is the default label=None
_node(etype, value, label) ==
    IF value = <<>> \/ value = <<"-">> \/ value = <<"NOT_TRANSLATED">> THEN None
    ELSE LET normalized == ReplaceDoubleBackslash(Lower(Strip(value)))
         IN  [id |-> <<etype, "::">> \o normalized,
              entity_type |-> etype,
              label |-> IF label # <<>> THEN label ELSE _short_label(value, etype),
              full_value |-> Strip(value)]

\* a one-atom string
Str(a) == <<a>>

_edge(src_id, dst_id, label, relation) ==
    IF src_id = <<>> \/ dst_id = <<>> THEN None
    ELSE [src |-> src_id, dst |-> dst_id, label |-> label, relation |-> relation]

(***************************************************************************)
(* graph/entities.py: the extractors.  An event is a function from its     *)
(* keys (strings) to its values; an extractor returns its two lists, or    *)
(* the exception it raised.                                                *)
(***************************************************************************)
\* a or b, on strings
Or(a, b) == IF a # <<>> THEN a ELSE b

\* "if n: nodes.append(n)" and "if <cond>: edges.append(e)"
Opt(n) == IF n # None THEN <<n>> ELSE <<>>
If(cond, e) == IF cond THEN <<e>> ELSE <<>>

Extracted(nodes, edges) == [nodes |-> nodes, edges |-> edges, raised |-> ""]
Raised(exception) == [nodes |-> <<>>, edges |-> <<>>, raised |-> exception]

_extract_sysmon(event) ==
    LET eid == Get(event, "EventID")
        host_node == _node("host", Get(event, "Computer"), <<>>)
        image == Get(event, "Image")
        user == Get(event, "User")
        img_node == _node("process", image, <<>>)
    IN
    IF eid = Str("1") THEN
        LET par_node == _node("process", Get(event, "ParentImage"), <<>>)
            usr_node == _node("user", user, <<>>)
        IN  Extracted(
                Opt(host_node) \o Opt(img_node) \o Opt(par_node) \o Opt(usr_node),
                If(par_node # None /\ img_node # None,
                   _edge(par_node.id, img_node.id, Str("spawned"), "process_creation"))
                \o If(usr_node # None /\ img_node # None,
                      _edge(usr_node.id, img_node.id, Str("ran"), "execution"))
                \o If(img_node # None /\ host_node # None,
                      _edge(img_node.id, host_node.id, Str("on"), "host_activity")))
    ELSE IF eid = Str("3") THEN
        LET src_node == _node("ip", Get(event, "SourceIp"), <<>>)
            dst_node == _node("ip", Get(event, "DestinationIp"), <<>>)
            dst_port == Get(event, "DestinationPort")
            label == IF dst_port # <<>> THEN Str("connected:") \o dst_port
                     ELSE Str("connected")
        IN  Extracted(
                Opt(host_node) \o Opt(img_node) \o Opt(src_node) \o Opt(dst_node),
                If(img_node # None /\ dst_node # None,
                   _edge(img_node.id, dst_node.id, label, "network"))
                \o If(src_node # None /\ img_node # None,
                      _edge(src_node.id, img_node.id, Str("source"), "network")))
    ELSE IF eid = Str("6") THEN
        LET drv_node == _node("driver", Get(event, "ImageLoaded"), <<>>)
        IN  Extracted(
                Opt(host_node) \o Opt(drv_node),
                If(host_node # None /\ drv_node # None,
                   _edge(host_node.id, drv_node.id, Str("loaded_driver"), "driver_load")))
    ELSE IF eid = Str("7") THEN
        LET file_node == _node("file", Get(event, "ImageLoaded"), <<>>)
        IN  Extracted(
                Opt(host_node) \o Opt(img_node) \o Opt(file_node),
                If(img_node # None /\ file_node # None,
                   _edge(img_node.id, file_node.id, Str("loaded"), "image_load")))
    ELSE IF eid \in {Str("8"), Str("10")} THEN
        LET src_node == _node("process", Get(event, "SourceImage"), <<>>)
            tgt_node == _node("process", Get(event, "TargetImage"), <<>>)
            label == IF eid = Str("8") THEN Str("injected_into") ELSE Str("accessed")
        IN  Extracted(
                Opt(host_node) \o Opt(src_node) \o Opt(tgt_node),
                If(src_node # None /\ tgt_node # None,
                   _edge(src_node.id, tgt_node.id, label, "process_interaction")))
    ELSE IF eid = Str("11") THEN
        LET file_node == _node("file", Get(event, "TargetFilename"), <<>>)
        IN  Extracted(
                Opt(host_node) \o Opt(img_node) \o Opt(file_node),
                If(img_node # None /\ file_node # None,
                   _edge(img_node.id, file_node.id, Str("created_file"), "file_creation")))
    ELSE IF eid \in {Str("12"), Str("13"), Str("14")} THEN
        LET reg_node == _node("registry", Get(event, "TargetObject"), <<>>)
        IN  Extracted(
                Opt(host_node) \o Opt(img_node) \o Opt(reg_node),
                If(img_node # None /\ reg_node # None,
                   _edge(img_node.id, reg_node.id, Str("modified_registry"), "registry")))
    ELSE IF eid = Str("22") THEN
        LET dns_node == _node("dns", Get(event, "QueryName"), <<>>)
        IN  Extracted(
                Opt(host_node) \o Opt(img_node) \o Opt(dns_node),
                If(img_node # None /\ dns_node # None,
                   _edge(img_node.id, dns_node.id, Str("dns_query"), "dns")))
    ELSE
        \* generic sysmon
        LET usr_node == _node("user", user, <<>>)
        IN  Extracted(
                Opt(host_node) \o Opt(img_node) \o Opt(usr_node),
                If(img_node # None /\ host_node # None,
                   _edge(img_node.id, host_node.id, Str("event_") \o eid, "activity"))
                \o If(usr_node # None /\ img_node # None,
                      _edge(usr_node.id, img_node.id, Str("associated"), "user_activity")))

\* the index of the last atom of the line that holds index i
RECURSIVE EndOfLine(_, _)
EndOfLine(s, i) ==
    IF i < Len(s) /\ s[i + 1] # "\n" THEN EndOfLine(s, i + 1) ELSE i

\* re.escape(field_name) \s* [:=] matches message from index i
LabelAndSeparatorAt(message, field_name, i) ==
    LET n == Len(field_name)
        j == SkipWhiteSpace(message, i + n)
    IN  /\ i + n - 1 <= Len(message)
        /\ Lower(SubSeq(message, i, i + n - 1)) = Lower(field_name)
        /\ j <= Len(message)
        /\ message[j] \in {":", "="}

\* _extract_field: the first place where the label, a ":" or "=" and a
\* value follow each other; "\s*" runs over line ends, "(.+)" to the end of
\* a line.  A value of whitespace alone yields '', as false as None.
_extract_field(message, field_name) ==
    LET places == {i \in DOMAIN message : LabelAndSeparatorAt(message, field_name, i)}
    IN  IF message = <<>> \/ places = {} THEN None
        ELSE LET i == CHOOSE x \in places : \A y \in places : x <= y
                 sep == SkipWhiteSpace(message, i + Len(field_name))
                 k == SkipWhiteSpace(message, sep + 1)
             IN  IF k > Len(message) THEN <<>>
                 ELSE Strip(SubSeq(message, k, EndOfLine(message, k)))

\* the labels mined from Message
Label3(a, b, c) == <<a, " ", b, " ", c>>
Label2(a, b) == <<a, " ", b>>

\* (mutant) the process names read from the event's own fields
ExtractKeyvalueFromFields(event) ==
    LET host_node == _node("host", Get(event, "ComputerName"), <<>>)
        usr_node == _node("user", Get(event, "User"), <<>>)
        proc_node == _node("process", Get(event, "New Process Name"), <<>>)
        par_node == _node("process", Get(event, "Creator Process Name"), <<>>)
    IN  Extracted(
            Opt(host_node) \o Opt(usr_node) \o Opt(proc_node) \o Opt(par_node),
            If(par_node # None /\ proc_node # None,
               _edge(par_node.id, proc_node.id, Str("spawned"), "process_creation"))
            \o If(usr_node # None /\ proc_node # None,
                  _edge(usr_node.id, proc_node.id, Str("ran"), "execution")))

_extract_keyvalue(event) ==
    LET host_node == _node("host", Get(event, "ComputerName"), <<>>)
        usr_node == _node("user", Get(event, "User"), <<>>)
        event_code == Get(event, "EventCode")
        msg == Get(event, "Message")
        base == Opt(host_node) \o Opt(usr_node)
    IN
    IF event_code = Str("7045") THEN
        LET svc_name == _extract_field(msg, Label2("Service", "Name"))
            svc_file == _extract_field(msg, Label3("Service", "File", "Name"))
            svc_node == _node("service", svc_name, <<>>)
            file_node == _node("file", svc_file, <<>>)
        IN  Extracted(
                base \o Opt(svc_node) \o Opt(file_node),
                If(host_node # None /\ svc_node # None,
                   _edge(host_node.id, svc_node.id, Str("installed_service"),
                         "service_install"))
                \o If(svc_node # None /\ file_node # None,
                      _edge(svc_node.id, file_node.id, Str("image_path"),
                            "service_binary")))
    ELSE IF event_code \in {Str("4688"), Str("592")} THEN
        LET new_proc == Or(_extract_field(msg, Label3("New", "Process", "Name")),
                           _extract_field(msg, Label2("Process", "Name")))
            parent == Or(_extract_field(msg, Label3("Creator", "Process", "Name")),
                         _extract_field(msg, Label3("Parent", "Process", "Name")))
            proc_node == _node("process", new_proc, <<>>)
            par_node == _node("process", parent, <<>>)
        IN  Extracted(
                base \o Opt(proc_node) \o Opt(par_node),
                If(par_node # None /\ proc_node # None,
                   _edge(par_node.id, proc_node.id, Str("spawned"), "process_creation"))
                \o If(usr_node # None /\ proc_node # None,
                      _edge(usr_node.id, proc_node.id, Str("ran"), "execution")))
    ELSE IF event_code \in {Str("4624"), Str("4625")} THEN
        LET ip == _extract_field(msg, Label3("Source", "Network", "Address"))
            ip_node == _node("ip", ip, <<>>)
            label == IF event_code = Str("4624") THEN Str("logged_on")
                     ELSE Str("failed_logon")
        IN  Extracted(
                base \o Opt(ip_node),
                If(usr_node # None /\ host_node # None,
                   _edge(usr_node.id, host_node.id, label, "authentication"))
                \o If(ip_node # None /\ host_node # None,
                      _edge(ip_node.id, host_node.id, Str("logon_source"), "network")))
    ELSE IF event_code = Str("4104") THEN
        Extracted(
            base,
            If(usr_node # None /\ host_node # None,
               _edge(usr_node.id, host_node.id, Str("executed_script"),
                     "script_execution")))
    ELSE
        Extracted(
            base,
            If(usr_node # None /\ host_node # None,
               _edge(usr_node.id, host_node.id, Str("event_") \o event_code, "activity")))

\* user_name, lines 281-287, as Python parses it: the conditional
\* expression binds weaker than "or", so the whole chain before "if" is
\* its first arm and the whole chain after "else" its second:
\*   (userName or arn.split('/')[-1]) if arn else ('' or principalId or ...)
UserName(event) ==
    IF Get(event, "userIdentity.arn") # <<>>
        THEN Or(Get(event, "userIdentity.userName"),
                Basename(Get(event, "userIdentity.arn")))
        ELSE Or(Get(event, "userIdentity.principalId"),
                Or(Get(event, "user.username"),
                   Or(Get(event, "userName"),
                      Or(Get(event, "actor.email"), Str("unknown")))))

_extract_json(event) ==
    LET user_name == UserName(event)
        usr_node == IF user_name # <<>> /\ user_name # Str("unknown")
                        THEN _node("user", user_name, <<>>)
                        ELSE None
        src_ip == Or(Get(event, "sourceIPAddress"),
                     Or(Get(event, "sourceIPs[0]"), Get(event, "source.ip")))
        ip_node == _node("ip", src_ip, <<>>)
        event_name == Or(Get(event, "eventName"),
                         Or(Get(event, "verb"), Get(event, "operation")))
        api_node == _node("api_call", event_name, <<>>)
        target == IF event_name = <<>> THEN <<>>
                  ELSE Or(Get(event, "requestParameters.userName"),
                          Or(Get(event, "requestParameters.bucketName"),
                             Or(Get(event, "requestParameters.instanceId"),
                                Or(Get(event, "objectRef.resource"),
                                   Get(event, "requestURI")))))
        res_node == _node("resource", target, <<>>)
        account == Or(Get(event, "recipientAccountId"), Get(event, "accountId"))
        region == Get(event, "awsRegion")
        host_label == IF region # <<>> THEN account \o Str("/") \o region ELSE account
        host_node == IF account # <<>> THEN _node("host", host_label, <<>>) ELSE None
    IN  IF res_node # None /\ api_node = None
            \* api_node[0] with api_node None
            THEN Raised("TypeError")
            ELSE Extracted(
                     Opt(usr_node) \o Opt(ip_node) \o Opt(api_node) \o Opt(res_node)
                         \o Opt(host_node),
                     If(ip_node # None /\ usr_node # None,
                        _edge(usr_node.id, ip_node.id, Str("from_ip"), "source"))
                     \o If(api_node # None /\ usr_node # None,
                           _edge(usr_node.id, api_node.id, Str("called"), "api_call"))
                     \o If(res_node # None,
                           _edge(api_node.id, res_node.id, Str("on_resource"), "target")))

\* (mutant) the resource node used as an endpoint without being appended
_extract_exchange_resource_not_appended(event) ==
    LET server_ip == Get(event, "server_ip")
        method == Get(event, "method")
        uri == Get(event, "uri_stem")
        status == Get(event, "protocol_status")
        cli_node == _node("ip", Get(event, "client_ip"), <<>>)
        srv_node == _node("ip", server_ip, Str("server:") \o server_ip)
        usr_node == _node("user", Get(event, "username"), <<>>)
        res_node == IF method # <<>> /\ uri # <<>>
                        THEN _node("resource", method \o Str(" ") \o uri, <<>>)
                        ELSE None
        label == IF status # <<>>
                     THEN method \o <<" ", "(">> \o status \o Str(")")
                     ELSE method
    IN  Extracted(
            Opt(cli_node) \o Opt(srv_node) \o Opt(usr_node),
            If(res_node # None /\ cli_node # None,
               _edge(cli_node.id, res_node.id, label, "http_request"))
            \o If(res_node # None /\ srv_node # None,
                  _edge(res_node.id, srv_node.id, Str("served_by"), "server"))
            \o If(usr_node # None /\ cli_node # None,
                  _edge(usr_node.id, cli_node.id, Str("from"), "user_source")))

_extract_exchange(event) ==
    LET server_ip == Get(event, "server_ip")
        method == Get(event, "method")
        uri == Get(event, "uri_stem")
        status == Get(event, "protocol_status")
        cli_node == _node("ip", Get(event, "client_ip"), <<>>)
        srv_node == _node("ip", server_ip, Str("server:") \o server_ip)
        usr_node == _node("user", Get(event, "username"), <<>>)
        res_node == IF method # <<>> /\ uri # <<>>
                        THEN _node("resource", method \o Str(" ") \o uri, <<>>)
                        ELSE None
        label == IF status # <<>>
                     THEN method \o <<" ", "(">> \o status \o Str(")")
                     ELSE method
    IN  Extracted(
            Opt(cli_node) \o Opt(srv_node) \o Opt(usr_node) \o Opt(res_node),
            If(res_node # None /\ cli_node # None,
               _edge(cli_node.id, res_node.id, label, "http_request"))
            \o If(res_node # None /\ srv_node # None,
                  _edge(res_node.id, srv_node.id, Str("served_by"), "server"))
            \o If(usr_node # None /\ cli_node # None,
                  _edge(usr_node.id, cli_node.id, Str("from"), "user_source")))

extract_entities_and_edges(event, fmt) ==
    IF fmt = "xml_sysmon" THEN _extract_sysmon(event)
    ELSE IF fmt = "keyvalue" THEN _extract_keyvalue(event)
    ELSE IF fmt = "json" THEN _extract_json(event)
    ELSE IF fmt = "exchange" THEN _extract_exchange(event)
    ELSE Extracted(<<>>, <<>>)

(***************************************************************************)
(* graph/builder.py: build_graph.  The DiGraph is its nodes and its edges  *)
(* in insertion order, each with its attributes.                           *)
(***************************************************************************)
EmptyGraph == [nodes |-> <<>>, edges |-> <<>>, raised |-> ""]

has_node(g, node_id) == \E i \in DOMAIN g.nodes : g.nodes[i].id = node_id
has_edge(g, src, dst) ==
    \E i \in DOMAIN g.edges : g.edges[i].src = src /\ g.edges[i].dst = dst

\* (mutant) a repeat is counted only when it looks like the first occurrence
AddNodeCountsSameLabelOnly(g, n) ==
    IF has_node(g, n.id)
        THEN [g EXCEPT !.nodes =
                [i \in DOMAIN g.nodes |->
                    IF g.nodes[i].id = n.id /\ g.nodes[i].label = n.label
                        THEN [g.nodes[i] EXCEPT !.count = @ + 1]
                        ELSE g.nodes[i]]]
        ELSE [g EXCEPT !.nodes =
                Append(g.nodes, [id |-> n.id, entity_type |-> n.entity_type,
                                 label |-> n.label, full_value |-> n.full_value,
                                 count |-> 1])]

\* lines 16-20; count 0 stands for a node without a count attribute, which
\* .get('count', 1) reads as 1
AddNode(g, n) ==
    IF has_node(g, n.id)
        THEN [g EXCEPT !.nodes =
                [i \in DOMAIN g.nodes |->
                    IF g.nodes[i].id = n.id
                        THEN [g.nodes[i] EXCEPT
                                 !.count = (IF @ = 0 THEN 1 ELSE @) + 1]
                        ELSE g.nodes[i]]]
        ELSE [g EXCEPT !.nodes =
                Append(g.nodes, [id |-> n.id, entity_type |-> n.entity_type,
                                 label |-> n.label, full_value |-> n.full_value,
                                 count |-> 1])]

\* DiGraph.add_edge adds an endpoint the graph does not hold as a node
\* without attributes
AddEndpoint(g, node_id) ==
    IF has_node(g, node_id) THEN g
    ELSE [g EXCEPT !.nodes =
            Append(g.nodes, [id |-> node_id, entity_type |-> "", label |-> <<>>,
                             full_value |-> <<>>, count |-> 0])]

\* (mutant) a repeated pair is added as one more edge
AddEdgeAgain(g, e) ==
    IF e = None THEN g
    ELSE [AddEndpoint(AddEndpoint(g, e.src), e.dst) EXCEPT !.edges =
            Append(g.edges, [src |-> e.src, dst |-> e.dst, label |-> e.label,
                             relation |-> e.relation, weight |-> 1])]

\* lines 22-29
AddEdge(g, e) ==
    IF e = None THEN g
    ELSE IF has_edge(g, e.src, e.dst)
        THEN [g EXCEPT !.edges =
                [i \in DOMAIN g.edges |->
                    IF g.edges[i].src = e.src /\ g.edges[i].dst = e.dst
                        THEN [g.edges[i] EXCEPT !.weight = @ + 1]
                        ELSE g.edges[i]]]
        ELSE [AddEndpoint(AddEndpoint(g, e.src), e.dst) EXCEPT !.edges =
                Append(g.edges, [src |-> e.src, dst |-> e.dst, label |-> e.label,
                                 relation |-> e.relation, weight |-> 1])]

RECURSIVE AddNodes(_, _)
AddNodes(g, nodes) ==
    IF nodes = <<>> THEN g ELSE AddNodes(AddNode(g, Head(nodes)), Tail(nodes))

RECURSIVE AddEdges(_, _)
AddEdges(g, edges) ==
    IF edges = <<>> THEN g ELSE AddEdges(AddEdge(g, Head(edges)), Tail(edges))

\* line 12: the event passes the allow-list (None and an empty one let
\* every event pass)
Contributes(event, allowed) ==
    allowed = {} \/ Get(event, "EventID") \in allowed

\* the loop of lines 11-29 from graph g on; an exception of the extractor
\* leaves build_graph and no graph is returned
RECURSIVE FoldEvents(_, _, _, _)
FoldEvents(g, evs, fmt, allowed) ==
    IF evs = <<>> THEN g
    ELSE IF ~Contributes(Head(evs), allowed)
        THEN FoldEvents(g, Tail(evs), fmt, allowed)
    ELSE LET x == extract_entities_and_edges(Head(evs), fmt)
         IN  IF x.raised # "" THEN Raised(x.raised)
             ELSE FoldEvents(AddEdges(AddNodes(g, x.nodes), x.edges),
                             Tail(evs), fmt, allowed)

build_graph(evs, fmt, allowed) == FoldEvents(EmptyGraph, evs, fmt, allowed)

(***************************************************************************)
(* parsers/json_logs.py: parse_json_events.  json.loads is the library's:  *)
(* it is modelled on the texts the model writes into files, every other    *)
(* text is a JSONDecodeError.                                              *)
(***************************************************************************)
JSONDecodeError == [kind |-> "JSONDecodeError"]

JsonLineUser == <<"{", "\"eventName\"", ":", "\"CreateUser\"", "}">>
JsonLineIp == <<"{", "\"sourceIPAddress\"", ":", "\"10.0.0.1\"", "}">>
JsonLineText == <<"\"bob\"">>
JsonLineBroken == <<"{", "\"eventName\"", ":">>

\* json.loads of one value
DecodeValue(text) ==
    CASE text = JsonLineUser -> JDict(<<Item("eventName", JStr(Str("CreateUser")))>>)
      [] text = JsonLineIp -> JDict(<<Item("sourceIPAddress", JStr(Str("10.0.0.1")))>>)
      [] text = JsonLineText -> JStr(Str("bob"))
      [] OTHER -> JSONDecodeError

\* the text between top-level commas
RECURSIVE SplitCommas(_, _)
SplitCommas(text, item) ==
    IF text = <<>> THEN <<item>>
    ELSE IF Head(text) = "," THEN <<item>> \o SplitCommas(Tail(text), <<>>)
    ELSE SplitCommas(Tail(text), Append(item, Head(text)))

Map(s, Op(_)) == [i \in DOMAIN s |-> Op(s[i])]

\* json.loads: white space between tokens is skipped; an array decodes when
\* every element does
json_loads(text) ==
    LET t == SelectSeq(text, LAMBDA a : a \notin WhiteSpace)
        inner == SubSeq(t, 2, Len(t) - 1)
        decoded == Map(SplitCommas(inner, <<>>), DecodeValue)
    IN  IF t # <<>> /\ Head(t) = "["
            THEN IF Len(t) < 2 \/ t[Len(t)] # "]" THEN JSONDecodeError
                 ELSE IF inner = <<>> THEN JList(<<>>)
                 ELSE IF \E i \in DOMAIN decoded : decoded[i] = JSONDecodeError
                     THEN JSONDecodeError
                 ELSE JList(decoded)
        ELSE DecodeValue(t)

\* lines 27-38: the loop over the lines of a newline-delimited file
RECURSIVE ParseJsonLines(_, _, _)
ParseJsonLines(lines, evs, max) ==
    IF lines = <<>> THEN evs
    ELSE LET line == Strip(Head(lines))
             obj == json_loads(line)
             appended == IF obj.kind = "dict" THEN Append(evs, _flatten_json(obj))
                         ELSE evs
         IN  IF line = <<>> \/ obj = JSONDecodeError
                 THEN ParseJsonLines(Tail(lines), evs, max)
             ELSE IF max # 0 /\ Len(appended) >= max THEN appended
             ELSE ParseJsonLines(Tail(lines), appended, max)

\* the events of a file that open() succeeded on
parse_json_events(lines, max) ==
    LET content == Strip(Content(lines))
        data == json_loads(content)
    IN  IF content = <<>> THEN <<>>
        ELSE IF Head(content) = "["
            THEN IF data.kind = "list" THEN FlattenItems(data.items, <<>>, max)
                 ELSE <<>>
        ELSE ParseJsonLines(SplitLines(content), <<>>, max)

(***************************************************************************)
(* parsers/xml_sysmon.py.  ET.fromstring is the library's: it is modelled  *)
(* on the elements the model writes into files, every other text is a      *)
(* ParseError.  An element is its children by tag, none being <<>>.        *)
(***************************************************************************)
ParseError == [kind |-> "ParseError"]

\* '[^']*': the quoted attribute values
QuotedAtoms == {"'ns'"}

XmlBody ==
    <<"<System><EventID>1</EventID><Computer>HOST</Computer></System><EventData><Data Name",
      "=", "'Image'>calc.exe</Data><Data Name", "=", "'User'></Data></EventData></Event>">>
XmlLineProcess == <<"<Event", ">">> \o XmlBody
XmlLineNamespace == <<"<Event", " ", "xmlns", "=", "'ns'", ">">> \o XmlBody
XmlLineThread ==
    <<"<Event", ">", "<System><Provider Name", "=",
      "'Sysmon'/><EventID>8</EventID><Security UserID", "=",
      "'S-1-5-18'/></System></Event>">>
XmlLineEmpty == <<"<Event", ">", "</Event>">>
XmlLineBroken == <<"<Event", ">", "<System>">>

Element(system, event_data) ==
    [kind |-> "Element", System |-> system, EventData |-> event_data]

\* NAMESPACE_RE.sub('', line)
RECURSIVE RemoveNamespaces(_, _)
RemoveNamespaces(line, i) ==
    LET j == SkipWhiteSpace(line, i)
    IN  IF i > Len(line) THEN <<>>
        ELSE IF /\ j > i /\ j + 2 <= Len(line)
                /\ line[j] = "xmlns" /\ line[j + 1] = "=" /\ line[j + 2] \in QuotedAtoms
            THEN RemoveNamespaces(line, j + 3)
        ELSE <<line[i]>> \o RemoveNamespaces(line, i + 1)

ET_fromstring(text) ==
    CASE text = XmlLineProcess ->
            Element(<<[Provider |-> <<>>,
                       tags |-> ("EventID" :> Str("1") @@ "Computer" :> Str("HOST")),
                       TimeCreated |-> <<>>, Execution |-> <<>>, Security |-> <<>>]>>,
                    <<<<[Name |-> Str("Image"), text |-> Str("calc.exe")],
                        [Name |-> Str("User"), text |-> None]>>>>)
      [] text = XmlLineThread ->
            Element(<<[Provider |-> <<[Name |-> Str("Sysmon")]>>,
                       tags |-> ("EventID" :> Str("8")),
                       TimeCreated |-> <<>>, Execution |-> <<>>,
                       Security |-> <<[UserID |-> Str("S-1-5-18")]>>]>>,
                    <<>>)
      [] text = XmlLineEmpty -> Element(<<>>, <<>>)
      [] OTHER -> ParseError

\* element.get(name, ''): the attribute, the empty str without it
Attribute(element, name) ==
    IF name \in DOMAIN element THEN element[name] ELSE <<>>

SystemTags ==
    <<"EventID", "Level", "Task", "Opcode", "Keywords", "EventRecordID",
      "Channel", "Computer">>

RECURSIVE SetTags(_, _, _)
SetTags(event, tags, names) ==
    IF names = <<>> THEN event
    ELSE SetTags(IF Head(names) \in DOMAIN tags /\ tags[Head(names)] # <<>>
                     THEN SetItem(event, Head(names), tags[Head(names)])
                     ELSE event,
                 tags, Tail(names))

RECURSIVE SetData(_, _)
SetData(event, data) ==
    IF data = <<>> THEN event
    ELSE SetData(IF Head(data).Name # <<>>
                     THEN SetItem(event, Head(data).Name[1], Head(data).text)
                     ELSE event,
                 Tail(data))

\* lines 38-64: the System element
ExtractSystem(system) ==
    LET provider == IF system.Provider = <<>> THEN <<>>
                    ELSE SetItem(SetItem(<<>>, "ProviderName",
                                         Attribute(system.Provider[1], "Name")),
                                 "ProviderGuid", Attribute(system.Provider[1], "Guid"))
        tagged == SetTags(provider, system.tags, SystemTags)
        timed == IF system.TimeCreated = <<>> THEN tagged
                 ELSE SetItem(tagged, "TimeCreated",
                              Attribute(system.TimeCreated[1], "SystemTime"))
        executed == IF system.Execution = <<>> THEN timed
                    ELSE SetItem(SetItem(timed, "ProcessID",
                                         Attribute(system.Execution[1], "ProcessID")),
                                 "ThreadID", Attribute(system.Execution[1], "ThreadID"))
        uid == IF system.Security = <<>> THEN <<>>
               ELSE Or(Attribute(system.Security[1], "UserID"),
                       Attribute(system.Security[1], "UserId"))
    IN  IF uid # <<>> THEN SetItem(executed, "UserID", uid) ELSE executed

\* the event dict, None (<<>>) when it is empty
_extract_event(root) ==
    LET event == IF root.System = <<>> THEN <<>> ELSE ExtractSystem(root.System[1])
    IN  IF root.EventData = <<>> THEN event ELSE SetData(event, root.EventData[1])

RECURSIVE parse_xml_lines(_, _, _)
parse_xml_lines(lines, evs, max) ==
    IF lines = <<>> THEN evs
    ELSE LET line == Strip(Head(lines))
             root == ET_fromstring(RemoveNamespaces(line, 1))
             event == _extract_event(root)
             appended == IF event # <<>> THEN Append(evs, event) ELSE evs
         IN  IF line = <<>> \/ Head(line) # "<Event" \/ root = ParseError
                 THEN parse_xml_lines(Tail(lines), evs, max)
             ELSE IF max # 0 /\ Len(appended) >= max THEN appended
             ELSE parse_xml_lines(Tail(lines), appended, max)

\* the events of a file that open() succeeded on
parse_xml_events(lines, max) == parse_xml_lines(lines, <<>>, max)

(***************************************************************************)
(* parsers/exchange.py                                                     *)
(***************************************************************************)
IIS_FIELDS ==
    <<"date", "time", "server_ip", "method", "uri_stem", "uri_query", "port",
      "username", "client_ip", "user_agent", "protocol_status",
      "protocol_substatus", "win32_status", "time_taken">>

\* DATE_LINE_RE.match(line)
DATE_LINE_RE(line) ==
    LET i == SkipWhiteSpace(line, 2)
    IN  /\ DateTimePrefix(line)
        /\ i + 1 <= Len(line) /\ line[i + 1] \in WhiteSpace

\* str.split(): the runs between white space
RECURSIVE Split(_, _)
Split(text, part) ==
    IF text = <<>> THEN IF part = <<>> THEN <<>> ELSE <<part>>
    ELSE IF Head(text) \in WhiteSpace
        THEN (IF part = <<>> THEN <<>> ELSE <<part>>) \o Split(Tail(text), <<>>)
    ELSE Split(Tail(text), part \o <<Head(text)>>)

RECURSIVE SetFields(_, _, _)
SetFields(event, parts, i) ==
    IF i > Len(IIS_FIELDS) \/ i > Len(parts) THEN event
    ELSE SetFields(SetItem(event, IIS_FIELDS[i],
                           IF parts[i] = Str("-") THEN <<>> ELSE parts[i]),
                   parts, i + 1)

RECURSIVE JoinWith(_, _)
JoinWith(parts, sep) ==
    IF parts = <<>> THEN <<>>
    ELSE IF Len(parts) = 1 THEN parts[1]
    ELSE parts[1] \o <<sep>> \o JoinWith(Tail(parts), sep)

\* lines 26-38: the event of one line
ExchangeEvent(line) ==
    LET parts == Split(line, <<>>)
        fields == SetFields(<<>>, parts, 1)
        stamped == IF Get(fields, "date") # <<>> /\ Get(fields, "time") # <<>>
                      THEN SetItem(fields, "Timestamp",
                                   fields["date"] \o <<" ">> \o fields["time"])
                      ELSE fields
    IN  IF Len(parts) > Len(IIS_FIELDS)
            THEN SetItem(stamped, "extra_fields",
                         JoinWith(SubSeq(parts, Len(IIS_FIELDS) + 1, Len(parts)), " "))
            ELSE stamped

RECURSIVE parse_exchange_lines(_, _, _)
parse_exchange_lines(lines, evs, max) ==
    IF lines = <<>> THEN evs
    ELSE LET line == Strip(Head(lines))
             appended == Append(evs, ExchangeEvent(line))
         IN  IF line = <<>> \/ Head(line) = "#" \/ Head(line) = Pad \/ ~DATE_LINE_RE(line)
                 THEN parse_exchange_lines(Tail(lines), evs, max)
             ELSE IF max # 0 /\ Len(appended) >= max THEN appended
             ELSE parse_exchange_lines(Tail(lines), appended, max)

\* the events of a file that open() succeeded on
parse_exchange_events(lines, max) == parse_exchange_lines(lines, <<>>, max)

(***************************************************************************)
(* Python floats (IEEE 754 binary64), for the quotients of data/loader.py. *)
(* A positive float is m * 2^e with 2^52 <= m < 2^53; m, and every number  *)
(* of the division, is a pair of limbs hi * 2^27 + lo.                     *)
(***************************************************************************)
Limb == 2^27

Big(hi, lo) == [hi |-> hi, lo |-> lo]
BigOf(k) == Big(k \div Limb, k % Limb)
BGeq(a, b) == a.hi > b.hi \/ (a.hi = b.hi /\ a.lo >= b.lo)
BSub(a, b) ==
    IF a.lo >= b.lo THEN Big(a.hi - b.hi, a.lo - b.lo)
    ELSE Big(a.hi - b.hi - 1, a.lo + Limb - b.lo)
BDouble(a) == Big(2 * a.hi + (2 * a.lo) \div Limb, (2 * a.lo) % Limb)
BHalf(a) == Big(a.hi \div 2, a.lo \div 2 + (a.hi % 2) * (Limb \div 2))
BSucc(a) == IF a.lo + 1 = Limb THEN Big(a.hi + 1, 0) ELSE Big(a.hi, a.lo + 1)

\* 2^52 and 2^53
MantissaMin == Big(2^25, 0)
MantissaEnd == Big(2^26, 0)

Float(m, e) == [m |-> m, e |-> e]

\* the number of bits of an int 0 < k < 2^30
BitLength(k) == CHOOSE l \in 1..30 : 2^(l - 1) <= k /\ k < 2^l

\* float(k) of an int 0 < k < 2^30: k shifted to a mantissa of 53 bits
FloatOf(k) ==
    LET shift == 53 - BitLength(k)
    IN  IF shift >= 27 THEN Float(Big(k * 2^(shift - 27), 0), -shift)
        ELSE Float(Big(k \div 2^(27 - shift), (k % 2^(27 - shift)) * 2^shift), -shift)

\* one step of the long division of the rest s.r by d: the next bit of
\* the quotient s.q, the rest doubled
DivideStep(s, d) ==
    IF BGeq(s.r, d) THEN [r |-> BDouble(BSub(s.r, d)), q |-> BSucc(BDouble(s.q))]
    ELSE [r |-> BDouble(s.r), q |-> BDouble(s.q)]

\* q * 2^k, k <= 27
BShift(q, k) == Big(q.hi * 2^k + q.lo \div 2^(27 - k), (q.lo % 2^(27 - k)) * 2^k)

\* so many steps: the first half of them, then the others, which give
\* zero bits once nothing is left to divide
RECURSIVE DivideBits(_, _, _)
DivideBits(s, d, bits) ==
    IF bits = 1 THEN DivideStep(s, d)
    ELSE LET half == DivideBits(s, d, bits \div 2)
         IN  IF half.r = Big(0, 0)
                 THEN [r |-> half.r, q |-> BShift(half.q, bits - bits \div 2)]
                 ELSE DivideBits(half, d, bits - bits \div 2)

\* 53 bits of r / d, rounded to nearest, a tie to the even mantissa
Divide(r, d) ==
    LET s == DivideBits([r |-> r, q |-> Big(0, 0)], d, 53)
    IN  IF s.r = d THEN (IF s.q.lo % 2 = 1 THEN BSucc(s.q) ELSE s.q)
        ELSE IF BGeq(s.r, d) THEN BSucc(s.q)
        ELSE s.q

\* a / b
FloatDiv(a, b) ==
    LET m == IF BGeq(a.m, b.m) THEN Divide(a.m, b.m)
             ELSE Divide(BDouble(a.m), b.m)
        e == IF BGeq(a.m, b.m) THEN a.e - b.e - 52 ELSE a.e - b.e - 53
    IN  IF m = MantissaEnd THEN Float(MantissaMin, e + 1) ELSE Float(m, e)

\* max(x, 1)
FloatMax1(x) == IF x.e < -52 THEN FloatOf(1) ELSE x

\* int(x) of a float 0 <= x < 2^30
FloatInt(x) ==
    IF x.e >= 0 THEN x.m.hi * Limb + x.m.lo
    ELSE IF -x.e >= 53 THEN 0
    ELSE IF -x.e >= 27 THEN x.m.hi \div 2^(-x.e - 27)
    ELSE x.m.hi * 2^(27 + x.e) + x.m.lo \div 2^(-x.e)

(***************************************************************************)
(* data/loader.py: load_file.  The result is the dict returned, and the    *)
(* exception that left the call ("" when it returned).                     *)
(***************************************************************************)
MAX_FILE_SIZE == 5242880
DEFAULT_MAX_EVENTS == 2000

Result(evs, fmt, total_estimated, truncated, file_size, error) ==
    [events |-> evs, format |-> fmt, total_estimated |-> total_estimated,
     loaded |-> Len(evs), truncated |-> truncated, file_size |-> file_size,
     error |-> error, raised |-> ""]

\* parser(file_path, max_events=limit): the events, or the exception of open()
Parsed(evs) == [events |-> evs, raised |-> ""]
CallParser(fmt, f, limit) ==
    IF ~f.readable THEN [events |-> <<>>, raised |-> "OSError"]
    ELSE CASE fmt = "xml_sysmon" -> Parsed(parse_xml_events(f.lines, limit))
           [] fmt = "keyvalue" -> Parsed(parse_keyvalue_events(f.lines, limit))
           [] fmt = "json" -> Parsed(parse_json_events(f.lines, limit))
           [] fmt = "exchange" -> Parsed(parse_exchange_events(f.lines, limit))

Max(a, b) == IF b > a THEN b ELSE a

\* lines 73-76: int(file_size / max(file_size / max(len(events), 1), 1))
EstimateTotal(file_size, n) ==
    LET avg_bytes == FloatDiv(FloatOf(file_size), FloatOf(Max(n, 1)))
    IN  FloatInt(FloatDiv(FloatOf(file_size), FloatMax1(avg_bytes)))

\* lines 58-80, with the exception of the parser left to propagate
LoadParsedUncaught(f, max, fmt) ==
    LET apply_limit == f.size > MAX_FILE_SIZE
        limit == IF apply_limit THEN max ELSE 0
        parsed == CallParser(fmt, f, limit)
        evs == parsed.events
        truncated == apply_limit /\ Len(evs) >= max
        total_estimated == IF ~truncated THEN Len(evs)
                           ELSE IF evs # <<>> THEN EstimateTotal(f.size, Len(evs))
                           ELSE 0
    IN  IF parsed.raised # ""
            THEN [Result(<<>>, fmt, 0, FALSE, f.size, <<>>) EXCEPT !.raised = parsed.raised]
            ELSE Result(evs, fmt, total_estimated, truncated, f.size, <<>>)

\* lines 58-80
LoadParsed(f, max, fmt) ==
    LET apply_limit == f.size > MAX_FILE_SIZE
        limit == IF apply_limit THEN max ELSE 0
        parsed == CallParser(fmt, f, limit)
        evs == parsed.events
        truncated == apply_limit /\ Len(evs) >= max
        total_estimated == IF ~truncated THEN Len(evs)
                           ELSE IF evs # <<>> THEN EstimateTotal(f.size, Len(evs))
                           ELSE 0
    IN  IF parsed.raised # ""
            THEN Result(<<>>, fmt, 0, FALSE, f.size, Str("Parse error"))
            ELSE Result(evs, fmt, total_estimated, truncated, f.size, <<>>)

load_file(f, max, hint) ==
    LET fmt == detect_format(f, hint)
    IN  IF ~f.is_file THEN Result(<<>>, "unknown", 0, FALSE, 0, Str("File not found"))
        ELSE IF fmt = "unknown"
            THEN Result(<<>>, fmt, 0, FALSE, f.size, Str("No parser for format"))
        ELSE LoadParsed(f, max, fmt)

\* the parsers a call of load_file calls
ParserCalls(f, hint) ==
    IF f.is_file /\ detect_format(f, hint) # "unknown"
        THEN <<detect_format(f, hint)>>
        ELSE <<>>

(***************************************************************************)
(* stix/parser.py: load_stix_data.  A dict is the sequence of its items    *)
(* in insertion order.  An object of the bundle holds the keys the parser  *)
(* reads for the indexes (the description, platforms and kill chain        *)
(* phases, which it copies, are left out); a key that is absent is "".     *)
(***************************************************************************)
DItem(key, value) == [key |-> key, value |-> value]
DHas(d, key) == \E i \in DOMAIN d : d[i].key = key
\* d.get(key, default)
DGet(d, key, default) ==
    IF DHas(d, key) THEN d[CHOOSE i \in DOMAIN d : d[i].key = key].value ELSE default
\* d[key] = value
DSet(d, key, value) ==
    IF DHas(d, key)
        THEN [i \in DOMAIN d |-> IF d[i].key = key THEN DItem(key, value) ELSE d[i]]
        ELSE Append(d, DItem(key, value))

\* the external ids that match ^(T|TA)\d{4}
MitreIdAtoms == {"T1003", "T1003.001", "T1059", "TA0002"}

\* _external_id(obj): the first reference whose id matches
RECURSIVE FirstMitreId(_)
FirstMitreId(refs) ==
    IF refs = <<>> THEN ""
    ELSE IF Head(refs) \in MitreIdAtoms THEN Head(refs)
    ELSE FirstMitreId(Tail(refs))
_external_id(obj) == FirstMitreId(obj.external_references)

\* lines 43-58, keeping a deprecated object
LiveObjectsNotRevoked(objects) == SelectSeq(objects, LAMBDA obj : ~obj.revoked)

\* lines 43-58: the objects neither revoked nor deprecated
LiveObjects(objects) ==
    SelectSeq(objects, LAMBDA obj : ~(obj.revoked \/ obj.x_mitre_deprecated))

OfType(objects, otype) == SelectSeq(objects, LAMBDA obj : obj.type = otype)

\* lines 61-69
RECURSIVE Tactics(_, _)
Tactics(tactics_raw, tactics) ==
    IF tactics_raw = <<>> THEN tactics
    ELSE LET t == Head(tactics_raw)
         IN  Tactics(Tail(tactics_raw),
                     DSet(tactics, t.x_mitre_shortname,
                          [name |-> t.name, external_id |-> _external_id(t),
                           stix_id |-> t.id]))

\* lines 81-90: data_sources and ds_id_to_name
RECURSIVE DataSources(_, _)
DataSources(data_sources_raw, st) ==
    IF data_sources_raw = <<>> THEN st
    ELSE LET ds == Head(data_sources_raw)
         IN  DataSources(Tail(data_sources_raw),
                 [data_sources |-> DSet(st.data_sources, ds.name,
                                        [stix_id |-> ds.id, components |-> <<>>]),
                  ds_id_to_name |-> DSet(st.ds_id_to_name, ds.id, ds.name)])

InSeq(x, s) == \E i \in DOMAIN s : s[i] = x

\* lines 92-109: data_components, dc_id_to_name, and the components of the
\* parent data source
RECURSIVE DataComponents(_, _)
DataComponents(data_components_raw, st) ==
    IF data_components_raw = <<>> THEN st
    ELSE LET dc == Head(data_components_raw)
             parent_name == DGet(st.ds_id_to_name, dc.x_mitre_data_source_ref, <<>>)
             parent == DGet(st.data_sources, parent_name,
                            [stix_id |-> "", components |-> <<>>])
         IN  DataComponents(Tail(data_components_raw),
                 [st EXCEPT
                    !.data_components =
                        DSet(@, dc.name, [data_source |-> parent_name,
                                          stix_id |-> dc.id, techniques |-> <<>>]),
                    !.dc_id_to_name = DSet(@, dc.id, dc.name),
                    !.data_sources =
                        IF parent_name # <<>> /\ ~InSeq(dc.name, parent.components)
                            THEN DSet(@, parent_name,
                                      [parent EXCEPT !.components = Append(@, dc.name)])
                            ELSE @])

\* lines 112-127: tech_id_map and techniques
RECURSIVE Techniques(_, _)
Techniques(techniques_raw, st) ==
    IF techniques_raw = <<>> THEN st
    ELSE LET t == Head(techniques_raw)
             mitre_id == _external_id(t)
         IN  IF mitre_id = "" THEN Techniques(Tail(techniques_raw), st)
             ELSE Techniques(Tail(techniques_raw),
                      [st EXCEPT
                         !.tech_id_map = DSet(@, t.id, mitre_id),
                         !.techniques =
                             DSet(@, mitre_id, [name |-> t.name, data_components |-> <<>>,
                                                stix_id |-> t.id])])

ComponentsOf(technique) ==
    [i \in DOMAIN technique.data_components |-> technique.data_components[i].component]

\* lines 138-150 without the two tests for an entry already there
DetectsAppends(st, rel) ==
    LET dc_name == DGet(st.dc_id_to_name, rel.source_ref, <<>>)
        tech_mitre == DGet(st.tech_id_map, rel.target_ref, "")
        technique == DGet(st.techniques, tech_mitre, <<>>)
        component == DGet(st.data_components, dc_name, <<>>)
    IN  IF dc_name = <<>> \/ tech_mitre = "" THEN st
        ELSE [st EXCEPT
                !.techniques =
                    DSet(@, tech_mitre,
                         [technique EXCEPT !.data_components =
                             Append(@, [source |-> component.data_source,
                                        component |-> dc_name])]),
                !.data_components =
                    DSet(@, dc_name,
                         [component EXCEPT !.techniques = Append(@, tech_mitre)])]

\* lines 138-150: a 'detects' relationship
Detects(st, rel) ==
    LET dc_name == DGet(st.dc_id_to_name, rel.source_ref, <<>>)
        tech_mitre == DGet(st.tech_id_map, rel.target_ref, "")
        technique == DGet(st.techniques, tech_mitre, <<>>)
        component == DGet(st.data_components, dc_name, <<>>)
    IN  IF dc_name = <<>> \/ tech_mitre = "" THEN st
        ELSE [st EXCEPT
                !.techniques =
                    IF ~InSeq(dc_name, ComponentsOf(technique))
                        THEN DSet(@, tech_mitre,
                                  [technique EXCEPT !.data_components =
                                      Append(@, [source |-> component.data_source,
                                                 component |-> dc_name])])
                        ELSE @,
                !.data_components =
                    IF ~InSeq(tech_mitre, component.techniques)
                        THEN DSet(@, dc_name,
                                  [component EXCEPT !.techniques = Append(@, tech_mitre)])
                        ELSE @]

\* lines 152-156: a 'subtechnique-of' relationship
SubtechniqueOf(st, rel) ==
    LET child_id == DGet(st.tech_id_map, rel.source_ref, "")
        parent_id == DGet(st.tech_id_map, rel.target_ref, "")
    IN  IF child_id # "" /\ parent_id # ""
            THEN [st EXCEPT !.subtechnique_parents = DSet(@, child_id, parent_id)]
            ELSE st

\* lines 131-156
RECURSIVE Relationships(_, _)
Relationships(relationships, st) ==
    IF relationships = <<>> THEN st
    ELSE LET rel == Head(relationships)
         IN  Relationships(Tail(relationships),
                 IF rel.revoked \/ rel.x_mitre_deprecated THEN st
                 ELSE IF rel.relationship_type = "detects" THEN Detects(st, rel)
                 ELSE IF rel.relationship_type = "subtechnique-of"
                     THEN SubtechniqueOf(st, rel)
                 ELSE st)

\* dc_name.startswith(ds_name)
IsPrefix(p, s) == Len(p) <= Len(s) /\ SubSeq(s, 1, Len(p)) = p

\* lines 159-166: the data source of a component that names none is the
\* first data source whose name its own name starts with
RECURSIVE Backfill(_, _)
Backfill(st, i) ==
    IF i > Len(st.data_components) THEN st
    ELSE LET dc_name == st.data_components[i].key
             dc_info == st.data_components[i].value
             matches == {j \in DOMAIN st.data_sources :
                            IsPrefix(st.data_sources[j].key, dc_name)}
             first == CHOOSE j \in matches : \A k \in matches : j <= k
             ds == st.data_sources[first]
         IN  IF dc_info.data_source # <<>> \/ matches = {} THEN Backfill(st, i + 1)
             ELSE Backfill(
                    [st EXCEPT
                       !.data_components =
                           DSet(@, dc_name, [dc_info EXCEPT !.data_source = ds.key]),
                       !.data_sources =
                           DSet(@, ds.key,
                                [ds.value EXCEPT !.components = Append(@, dc_name)])],
                    i + 1)

tactic_order ==
    <<"reconnaissance", "resource-development", "initial-access", "execution",
      "persistence", "privilege-escalation", "defense-evasion", "credential-access",
      "discovery", "lateral-movement", "collection", "command-and-control",
      "exfiltration", "impact">>

load_stix_data(objects) ==
    LET live == LiveObjects(objects)
        sources == DataSources(OfType(live, "x-mitre-data-source"),
                               [data_sources |-> <<>>, ds_id_to_name |-> <<>>])
        components == DataComponents(OfType(live, "x-mitre-data-component"),
                          [data_sources |-> sources.data_sources,
                           ds_id_to_name |-> sources.ds_id_to_name,
                           data_components |-> <<>>, dc_id_to_name |-> <<>>])
        techs == Techniques(OfType(live, "attack-pattern"),
                            [tech_id_map |-> <<>>, techniques |-> <<>>])
        related == Relationships(OfType(live, "relationship"),
                       [techniques |-> techs.techniques,
                        tech_id_map |-> techs.tech_id_map,
                        data_components |-> components.data_components,
                        dc_id_to_name |-> components.dc_id_to_name,
                        data_sources |-> components.data_sources,
                        subtechnique_parents |-> <<>>])
        filled == Backfill(related, 1)
    IN  [techniques |-> filled.techniques,
         tactics |-> Tactics(OfType(live, "x-mitre-tactic"), <<>>),
         tactic_order |-> tactic_order,
         data_sources |-> filled.data_sources,
         data_components |-> filled.data_components,
         subtechnique_parents |-> filled.subtechnique_parents]

(***************************************************************************)
(* The values the knowledge base, the sample and the rating store take     *)
(***************************************************************************)
MaxTechniques == 3

Components == {"A", "B", "C"}

TechniqueIds == <<"T1003", "T1059", "T1547", "T1021", "T1055">>

\* The lists of required components a technique has (the loader keeps them
\* free of duplicates); <<>> is a technique no component detects.
RequiredLists ==
    {<<>>, <<"A">>, <<"A", "B">>, <<"B", "A">>, <<"C", "A", "B">>}

\* yaml_admin._default_quality, and two ratings an analyst has entered
Quality(a, b, c, d, e) ==
    [device_completeness |-> a, data_field_completeness |-> b,
     timeliness |-> c, consistency |-> d, retention |-> e]

_default_quality == Quality(0, 0, 0, 0, 0)

QualityRatings == {_default_quality, Quality(3, 3, 3, 3, 3), Quality(5, 4, 4, 3, 4)}

\* The rating stores a data_sources_admin.yml holds: any subset of the
\* components rated; the empty one is the absent (or empty) file.
AdminStores ==
    UNION {[S -> QualityRatings] : S \in SUBSET Components}

KnowledgeBases ==
    UNION {[{TechniqueIds[i] : i \in 1..k} -> RequiredLists] : k \in 0..MaxTechniques}

(***************************************************************************)
(* dettect/coverage.py: analyze_coverage, phase 3 (the cross-reference)    *)
(***************************************************************************)
\* (mutant) every required component reported as covered
TechniqueCoverageAllCovered(required_components, det) ==
    [required |-> required_components,
     covered |-> required_components,
     missing |-> Filter(required_components, Components \ det),
     coverage_pct |-> 1000]

\* (mutant) coverage_pct taken from the share of missing components
TechniqueCoveragePctOfMissing(required_components, det) ==
    LET covered == Filter(required_components, det)
        missing == Filter(required_components, Components \ det)
    IN  [required |-> required_components,
         covered |-> covered,
         missing |-> missing,
         coverage_pct |->
             Round1(Rat(100 * Len(missing), Len(required_components)))]

\* one technique_coverage entry, for a non-empty required list
TechniqueCoverage(required_components, det) ==
    LET covered == Filter(required_components, det)
        missing == Filter(required_components, Components \ det)
        pct == Rat(100 * Len(covered), Len(required_components))
    IN  [required |-> required_components,
         covered |-> covered,
         missing |-> missing,
         coverage_pct |-> Round1(pct)]

\* overall_coverage_pct, in tenths of a percent
OverallPct(covered_count, total_with_reqs) ==
    IF total_with_reqs > 0
        THEN Round1(Rat(100 * covered_count, total_with_reqs))
        ELSE 0

\* (mutant) techniques without requirements counted in the denominator
analyze_coverage_all_in_denominator(techniques, det) ==
    LET with_reqs == {t \in DOMAIN techniques : techniques[t] # <<>>}
        technique_coverage ==
            [t \in with_reqs |-> TechniqueCoverage(techniques[t], det)]
        covered_count ==
            Cardinality({t \in with_reqs : Len(technique_coverage[t].covered) > 0})
        total == Cardinality(DOMAIN techniques)
    IN  [detected_components |-> det,
         technique_coverage |-> technique_coverage,
         overall_coverage_pct |-> OverallPct(covered_count, total),
         techniques_with_data |-> covered_count,
         techniques_with_requirements |-> total]

analyze_coverage(techniques, det) ==
    LET with_reqs == {t \in DOMAIN techniques : techniques[t] # <<>>}
        technique_coverage ==
            [t \in with_reqs |-> TechniqueCoverage(techniques[t], det)]
        \* pct > 0 is tested on the unrounded quotient
        covered_count ==
            Cardinality({t \in with_reqs : Len(technique_coverage[t].covered) > 0})
        total_with_reqs == Cardinality(with_reqs)
    IN  [detected_components |-> det,
         technique_coverage |-> technique_coverage,
         overall_coverage_pct |->
             OverallPct(covered_count, total_with_reqs),
         techniques_with_data |-> covered_count,
         techniques_with_requirements |-> total_with_reqs]

(***************************************************************************)
(* dettect/visibility.py: calculate_visibility                             *)
(***************************************************************************)
\* sum(dims) of one rating; the mean of its five dimensions is this over 5
DimsSum(dq) ==
    dq.device_completeness + dq.data_field_completeness + dq.timeliness
        + dq.consistency + dq.retention

RECURSIVE DimsSumAll(_, _)
DimsSumAll(rated, admin) ==
    IF rated = <<>> THEN 0
    ELSE DimsSum(admin[Head(rated)]) + DimsSumAll(Tail(rated), admin)

\* (mutant) a covered component without a rating counted as rated 0
QualityAvgUnratedAsZero(covered, admin) ==
    IF covered = <<>> THEN Rat(0, 1)
    ELSE Rat(DimsSumAll(Filter(covered, DOMAIN admin), admin), 5 * Len(covered))

\* quality_avg: the mean over the covered components that have a rating
QualityAvg(covered, admin) ==
    LET rated == Filter(covered, DOMAIN admin)
    IN  IF rated = <<>> THEN Rat(0, 1)
        ELSE Rat(DimsSumAll(rated, admin), 5 * Len(rated))

TechniqueScore(required, det, admin) ==
    IF required = <<>>
        THEN [score |-> 0, coverage_pct |-> 0, quality_avg |-> 0,
              required_count |-> 0, covered_count |-> 0,
              missing |-> <<>>, covered |-> <<>>]
        ELSE LET covered == Filter(required, det)
                 missing == Filter(required, Components \ det)
                 cov_pct == Rat(100 * Len(covered), Len(required))
                 q == QualityAvg(covered, admin)
             IN  [score |-> _compute_score(cov_pct, q),
                  coverage_pct |-> Round1(cov_pct),
                  quality_avg |-> Round2(q),
                  required_count |-> Len(required),
                  covered_count |-> Len(covered),
                  missing |-> missing,
                  covered |-> covered]

RECURSIVE SumScores(_, _)
SumScores(ids, technique_scores) ==
    IF ids = {} THEN 0
    ELSE LET t == CHOOSE x \in ids : TRUE
         IN  technique_scores[t].score + SumScores(ids \ {t}, technique_scores)

\* (mutant) the techniques without required components left out of the mean
calculate_visibility_mean_of_required(techniques, cov_result, admin) ==
    LET det == cov_result.detected_components
        technique_scores ==
            [t \in DOMAIN techniques |-> TechniqueScore(techniques[t], det, admin)]
        with_reqs == {t \in DOMAIN techniques : techniques[t] # <<>>}
        n == Cardinality(with_reqs)
    IN  [technique_scores |-> technique_scores,
         overall_score |->
             IF n > 0
                 THEN Round2(Rat(SumScores(with_reqs, technique_scores), n))
                 ELSE 0]

calculate_visibility(techniques, cov_result, admin) ==
    LET det == cov_result.detected_components
        technique_scores ==
            [t \in DOMAIN techniques |-> TechniqueScore(techniques[t], det, admin)]
        n == Cardinality(DOMAIN techniques)
    IN  [technique_scores |-> technique_scores,
         overall_score |->
             IF n > 0
                 THEN Round2(Rat(SumScores(DOMAIN techniques, technique_scores), n))
                 ELSE 0]

(***************************************************************************)
(* dettect/yaml_admin.py: generate_data_sources_admin                      *)
(***************************************************************************)
\* (mutant) every detected component generated with the best rating
generate_data_sources_admin_best(cov_result) ==
    [c \in cov_result.detected_components |-> Quality(5, 5, 5, 5, 5)]

generate_data_sources_admin(cov_result) ==
    [c \in cov_result.detected_components |-> _default_quality]

(***************************************************************************)
(* Specification SpecComputeScore: _compute_score applied to every input   *)
(***************************************************************************)
\* coverage_pct in 0..100 and quality_avg in 0..5, in steps of a tenth
CoveragePcts == {Rat(k, 10) : k \in 0..1000}
QualityAvgs == {Rat(k, 10) : k \in 0..50}

PipeIdle ==
    /\ stix_techniques = <<>>
    /\ detected = {}
    /\ ds_admin = <<>>
    /\ ds_admin_on_file = <<>>
    /\ coverage_result = <<>>
    /\ visibility = <<>>

NodeIdle ==
    /\ entity_type = ""
    /\ value1 = <<>>
    /\ value2 = <<>>
    /\ node1 = <<>>
    /\ node2 = <<>>

GraphIdle ==
    /\ source = <<>>
    /\ max_events = 0
    /\ format_type = ""
    /\ allowed_eids = {}
    /\ events = <<>>
    /\ G = <<>>

LoadIdle ==
    /\ file = <<>>
    /\ sourcetype = <<>>
    /\ formats = <<>>
    /\ result = "none"
    /\ calls = <<>>

StixIdle ==
    /\ bundle = <<>>
    /\ stix_data = "none"

ScanIdle ==
    /\ scanner = <<>>
    /\ lineno = 0

SampleIdle ==
    /\ sampled = <<>>
    /\ json_sample = <<>>
    /\ sample_pos = 0
    /\ sample_detected = <<>>

InitComputeScore ==
    /\ ScanIdle
    /\ SampleIdle
    /\ coverage_pct \in CoveragePcts
    /\ quality_avg \in QualityAvgs
    /\ score = 0
    /\ pc = "call"
    /\ PipeIdle
    /\ NodeIdle
    /\ LoadIdle
    /\ StixIdle
    /\ GraphIdle

ComputeScore ==
    /\ pc = "call"
    /\ score' = _compute_score(coverage_pct, quality_avg)
    /\ pc' = "return"
    /\ UNCHANGED <<sampleVars, scanVars, loadVars, stixVars, coverage_pct, quality_avg, stix_techniques, detected,
                   ds_admin, ds_admin_on_file, coverage_result, visibility, nodeVars,
                   graphVars>>

NextComputeScore == ComputeScore

SpecComputeScore == InitComputeScore /\ [][NextComputeScore]_vars

(***************************************************************************)
(* Specification SpecPipeline: the scoring pipeline of create_app          *)
(* (app.py 41-67): knowledge base loaded, coverage analysed, rating store  *)
(* loaded or generated, visibility calculated.                             *)
(***************************************************************************)
InitPipeline ==
    /\ ScanIdle
    /\ SampleIdle
    /\ stix_techniques \in KnowledgeBases
    /\ detected = {}
    /\ ds_admin = <<>>
    /\ ds_admin_on_file = "unread"
    /\ coverage_result = <<>>
    /\ visibility = <<>>
    /\ pc = "stix_loaded"
    /\ coverage_pct = Rat(0, 1)
    /\ quality_avg = Rat(0, 1)
    /\ score = 0
    /\ NodeIdle
    /\ LoadIdle
    /\ StixIdle
    /\ GraphIdle

\* analyze_coverage: phases 1-2 (the random sample of the corpus) yield some
\* set of detected components; phase 3 cross-references it.
AnalyzeCoverage ==
    /\ pc = "stix_loaded"
    /\ \E det \in SUBSET Components :
        /\ detected' = det
        /\ coverage_result' = analyze_coverage(stix_techniques, det)
    /\ pc' = "analyzed"
    /\ UNCHANGED <<sampleVars, scanVars, loadVars, stixVars, scoreVars, nodeVars, graphVars, stix_techniques,
                   ds_admin, ds_admin_on_file, visibility>>

\* app.py 53-57: the store on file, or one generated when it is absent or
\* empty (the generated store is saved to the file, which this run does not
\* read again)
LoadDataSourcesAdmin ==
    /\ pc = "analyzed"
    /\ \E store \in AdminStores :
        /\ ds_admin_on_file' = store
        /\ ds_admin' = IF DOMAIN store = {}
                           THEN generate_data_sources_admin(coverage_result)
                           ELSE store
    /\ pc' = "admin_loaded"
    /\ UNCHANGED <<sampleVars, scanVars, loadVars, stixVars, scoreVars, nodeVars, graphVars, stix_techniques, detected, coverage_result, visibility>>

CalculateVisibility ==
    /\ pc = "admin_loaded"
    /\ visibility' = calculate_visibility(stix_techniques, coverage_result, ds_admin)
    /\ pc' = "scored"
    /\ UNCHANGED <<sampleVars, scanVars, loadVars, stixVars, scoreVars, nodeVars, graphVars, stix_techniques,
                   detected, coverage_result, ds_admin, ds_admin_on_file>>

NextPipeline == AnalyzeCoverage \/ LoadDataSourcesAdmin \/ CalculateVisibility

SpecPipeline == InitPipeline /\ [][NextPipeline]_vars

(***************************************************************************)
(* Claims about the scorer and the coverage cross-reference                *)
(***************************************************************************)
\* The threshold table of the specification, section 4.7
ScoreTable(cov, q) ==
    CASE RLeq(cov, Rat(0, 1)) -> 0
      [] RLt(Rat(0, 1), cov) /\ RLt(cov, Rat(25, 1)) -> 1
      [] RLeq(Rat(25, 1), cov) /\ RLt(cov, Rat(50, 1)) -> 2
      [] RLeq(Rat(50, 1), cov) /\ RLt(cov, Rat(75, 1)) -> 3
      [] RLeq(Rat(75, 1), cov) -> IF RLeq(Rat(35, 10), q) THEN 5 ELSE 4

PctsFrom(cov) == {Rat(k, 10) : k \in cov.num..1000}
QualityAvgsFrom(q) == {Rat(k, 10) : k \in q.num..50}

\* the score _compute_score gives to each coverage_pct and quality_avg, by
\* their numbers of tenths
ScoreOf ==
    [c \in 0..1000 |-> [q \in 0..50 |-> _compute_score(Rat(c, 10), Rat(q, 10))]]

\* C12: with quality_avg fixed the score does not fall when coverage_pct
\* rises; with coverage_pct fixed at 75 or more it does not fall when
\* quality_avg rises.
C12_ScoreMonotone ==
    pc = "return" =>
        /\ \A cov2 \in PctsFrom(coverage_pct) :
               score <= ScoreOf[cov2.num][quality_avg.num]
        /\ RGeq(coverage_pct, Rat(75, 1)) =>
               \A q2 \in QualityAvgsFrom(quality_avg) :
                   score <= ScoreOf[coverage_pct.num][q2.num]

\* C12 witness: a score of 4 that more quality raises to 5 and that less
\* coverage lowers to 3
C12_Witness ==
    /\ pc = "return"
    /\ score = 4
    /\ RGeq(coverage_pct, Rat(75, 1))
    /\ \E q2 \in QualityAvgsFrom(quality_avg) :
           ScoreOf[coverage_pct.num][q2.num] = 5
    /\ \E cov1 \in CoveragePcts :
           RLeq(cov1, coverage_pct) /\ ScoreOf[cov1.num][quality_avg.num] = 3

Entry(t) == coverage_result.technique_coverage[t]
VScore(t) == visibility.technique_scores[t]
WithReqs == {t \in DOMAIN stix_techniques : stix_techniques[t] # <<>>}

\* the case of claim C2: exactly the two components A and B required, and of
\* these only A detected
RequiresABDetectsA(t) ==
    /\ stix_techniques[t] = <<"A", "B">>
    /\ "A" \in detected
    /\ "B" \notin detected

\* C2 as stated: required {A,B} with only A detected gives coverage
\* {required [A,B], covered [A], missing [B], coverage_pct 50.0} and a
\* visibility score of 2.
C2_HalfCoverageScoresTwo ==
    pc = "scored" =>
        \A t \in DOMAIN stix_techniques :
            RequiresABDetectsA(t) =>
                /\ Entry(t) = [required |-> <<"A", "B">>, covered |-> <<"A">>,
                               missing |-> <<"B">>, coverage_pct |-> 500]
                /\ VScore(t).score = 2

\* C2 as amended: the same coverage entry, and a visibility score of 3
\* (50 lies in the band [50, 75)).
C2_HalfCoverageScoresThree ==
    pc = "scored" =>
        \A t \in DOMAIN stix_techniques :
            RequiresABDetectsA(t) =>
                /\ Entry(t) = [required |-> <<"A", "B">>, covered |-> <<"A">>,
                               missing |-> <<"B">>, coverage_pct |-> 500]
                /\ VScore(t).score = 3

C2_Witness ==
    /\ pc = "scored"
    /\ \E t \in DOMAIN stix_techniques :
        /\ RequiresABDetectsA(t)
        /\ VScore(t).coverage_pct = 500
        /\ VScore(t).score = 3

\* s keeps the order its elements have in t (both free of duplicates)
InOrderOf(s, t) ==
    \A i, j \in DOMAIN s :
        i < j => \E k, l \in DOMAIN t : k < l /\ t[k] = s[i] /\ t[l] = s[j]

\* covered = required /\ detected and missing = required - covered, each in
\* required order
CoveredAndMissingPartition(e) ==
    /\ Range(e.covered) = Range(e.required) \cap detected
    /\ Range(e.missing) = Range(e.required) \ Range(e.covered)
    /\ Range(e.covered) \cap Range(e.missing) = {}
    /\ Len(e.covered) + Len(e.missing) = Len(e.required)
    /\ InOrderOf(e.covered, e.required)
    /\ InOrderOf(e.missing, e.required)

\* C3 as stated: for every technique with a requirement, covered is
\* required /\ detected, missing is required - covered, and coverage_pct is
\* exactly 100 * |covered| / |required|, within 0..100.
C3_CoverageExactQuotient ==
    pc \in {"analyzed", "admin_loaded", "scored"} =>
        \A t \in WithReqs :
            /\ CoveredAndMissingPartition(Entry(t))
            /\ Entry(t).coverage_pct * Len(Entry(t).required)
                   = 1000 * Len(Entry(t).covered)
            /\ Entry(t).coverage_pct \in 0..1000

\* C3 as amended: the same, with coverage_pct that quotient rounded to one
\* decimal (at most 0.05 from it).
C3_CoverageRoundedQuotient ==
    pc \in {"analyzed", "admin_loaded", "scored"} =>
        \A t \in WithReqs :
            /\ CoveredAndMissingPartition(Entry(t))
            /\ 2 * Abs(Entry(t).coverage_pct * Len(Entry(t).required)
                           - 1000 * Len(Entry(t).covered))
                   <= Len(Entry(t).required)
            /\ Entry(t).coverage_pct \in 0..1000

\* C3 witness: one of three required components covered, reported as 33.3
C3_Witness ==
    /\ pc = "analyzed"
    /\ \E t \in WithReqs :
        /\ Len(Entry(t).required) = 3
        /\ Entry(t).covered = <<"A">>
        /\ Entry(t).missing = <<"C", "B">>
        /\ Entry(t).coverage_pct = 333

\* techniques whose coverage is above 0, as the overall figure counts them
WithCoverage == {t \in WithReqs : Entry(t).coverage_pct > 0}

\* C4 as stated: overall_coverage_pct is exactly 100 * (techniques with
\* coverage_pct > 0) / (techniques with a requirement); techniques without
\* requirements have no technique_coverage entry and count on neither side;
\* with no technique having a requirement the figure is 0.
C4_OverallExactQuotient ==
    pc \in {"analyzed", "admin_loaded", "scored"} =>
        /\ DOMAIN coverage_result.technique_coverage = WithReqs
        /\ WithReqs = {} => coverage_result.overall_coverage_pct = 0
        /\ WithReqs # {} =>
               coverage_result.overall_coverage_pct * Cardinality(WithReqs)
                   = 1000 * Cardinality(WithCoverage)

\* C4 as amended: the same, with overall_coverage_pct that quotient rounded
\* to one decimal (at most 0.05 from it).
C4_OverallRoundedQuotient ==
    pc \in {"analyzed", "admin_loaded", "scored"} =>
        /\ DOMAIN coverage_result.technique_coverage = WithReqs
        /\ WithReqs = {} => coverage_result.overall_coverage_pct = 0
        /\ WithReqs # {} =>
               2 * Abs(coverage_result.overall_coverage_pct * Cardinality(WithReqs)
                           - 1000 * Cardinality(WithCoverage))
                   <= Cardinality(WithReqs)

\* C4 witness: a technique without requirements beside two with, one of them
\* covered: overall 50.0
C4_Witness ==
    /\ pc = "analyzed"
    /\ WithReqs # DOMAIN stix_techniques
    /\ Cardinality(WithReqs) = 2
    /\ Cardinality(WithCoverage) = 1
    /\ coverage_result.overall_coverage_pct = 500

\* C11: when one more component c is detected, the knowledge base being the
\* same, no technique's coverage_pct gets smaller and overall_coverage_pct
\* does not get smaller.
C11_CoverageMonotone ==
    pc \in {"analyzed", "admin_loaded", "scored"} =>
        \A c \in Components :
            LET more == analyze_coverage(stix_techniques, detected \cup {c})
            IN  /\ DOMAIN more.technique_coverage
                       = DOMAIN coverage_result.technique_coverage
                /\ \A t \in DOMAIN coverage_result.technique_coverage :
                       Entry(t).coverage_pct
                           <= more.technique_coverage[t].coverage_pct
                /\ coverage_result.overall_coverage_pct
                       <= more.overall_coverage_pct

\* C11 witness: a component not yet detected whose detection raises a
\* technique's coverage_pct and the overall figure
C11_Witness ==
    /\ pc = "analyzed"
    /\ \E c \in Components \ detected :
        LET more == analyze_coverage(stix_techniques, detected \cup {c})
        IN  /\ \E t \in WithReqs :
                   /\ Entry(t).coverage_pct > 0
                   /\ Entry(t).coverage_pct < more.technique_coverage[t].coverage_pct
            /\ coverage_result.overall_coverage_pct < more.overall_coverage_pct

RECURSIVE DimsSumOver(_)
DimsSumOver(S) ==
    IF S = {} THEN 0
    ELSE LET c == CHOOSE x \in S : TRUE
         IN  DimsSum(ds_admin[c]) + DimsSumOver(S \ {c})

CoveredOf(t) == Range(stix_techniques[t]) \cap detected
RatedOf(t) == CoveredOf(t) \cap DOMAIN ds_admin

\* the mean, over the covered components with a rating, of the rating's
\* five-dimension average
MeanOfRated(t) ==
    IF RatedOf(t) = {} THEN Rat(0, 1)
    ELSE Rat(DimsSumOver(RatedOf(t)), 5 * Cardinality(RatedOf(t)))

\* C5: the quality_avg the score is computed from is the mean over the
\* covered components that have a rating; an unrated covered component is
\* left out of that mean and still counts in coverage_pct. With {A,B}
\* required and detected, A rated 4.0 on average and B unrated: coverage_pct
\* 100, quality_avg 4.0, score 5.
C5_UnratedLeftOutOfMean ==
    pc = "scored" =>
        \A t \in WithReqs :
            /\ VScore(t).score =
                   ScoreTable(Rat(100 * Cardinality(CoveredOf(t)),
                                  Len(stix_techniques[t])),
                              MeanOfRated(t))
            /\ VScore(t).quality_avg = Round2(MeanOfRated(t))
            /\ VScore(t).covered_count = Cardinality(CoveredOf(t))
            /\ VScore(t).coverage_pct =
                   Round1(Rat(100 * Cardinality(CoveredOf(t)), Len(stix_techniques[t])))
            /\ (/\ Range(stix_techniques[t]) = {"A", "B"}
                /\ {"A", "B"} \subseteq detected
                /\ "A" \in DOMAIN ds_admin
                /\ "B" \notin DOMAIN ds_admin
                /\ DimsSum(ds_admin["A"]) = 20)
               => /\ VScore(t).coverage_pct = 1000
                  /\ VScore(t).quality_avg = 400
                  /\ VScore(t).score = 5

C5_Witness ==
    /\ pc = "scored"
    /\ \E t \in WithReqs :
        /\ stix_techniques[t] = <<"A", "B">>
        /\ {"A", "B"} \subseteq detected
        /\ "A" \in DOMAIN ds_admin
        /\ "B" \notin DOMAIN ds_admin
        /\ DimsSum(ds_admin["A"]) = 20
        /\ VScore(t).score = 5

(***************************************************************************)
(* Specification SpecNode: _node called on two raw values of one type      *)
(***************************************************************************)
MaxValueLen == 2

NodeAlphabet == {"a", "A", " ", "\\", "/", "-", "NOT_TRANSLATED", "not_translated"}

RawValues == UNION {[1..n -> NodeAlphabet] : n \in 0..MaxValueLen}

InitNode ==
    /\ ScanIdle
    /\ SampleIdle
    /\ entity_type \in ENTITY_TYPES
    /\ value1 \in RawValues
    /\ value2 \in RawValues
    /\ node1 = None
    /\ node2 = None
    /\ pc = "call"
    /\ coverage_pct = Rat(0, 1)
    /\ quality_avg = Rat(0, 1)
    /\ score = 0
    /\ PipeIdle
    /\ GraphIdle
    /\ LoadIdle
    /\ StixIdle

Node ==
    /\ pc = "call"
    /\ node1' = _node(entity_type, value1, <<>>)
    /\ node2' = _node(entity_type, value2, <<>>)
    /\ pc' = "return"
    /\ UNCHANGED <<sampleVars, scanVars, loadVars, stixVars, scoreVars, pipeVars_data, graphVars, entity_type, value1, value2>>

NextNode == Node

SpecNode == InitNode /\ [][NextNode]_vars

\* The normal form of the specification's data model: trim, case-fold,
\* path separators unified ("/" as "\", a doubled separator as one)
UnifySeparators(s) ==
    ReplaceDoubleBackslash([i \in DOMAIN s |-> IF s[i] = "/" THEN "\\" ELSE s[i]])

Canonical(s) == UnifySeparators(Lower(Strip(s)))

\* the node id of a returned node; None has none
NodeId(n) == IF n = None THEN None ELSE n.id

\* C8: two raw values of one entity_type that differ only by letter case,
\* surrounding whitespace or path-separator style get the same node id from
\* _node.
C8_SameNodeId ==
    (pc = "return" /\ Canonical(value1) = Canonical(value2))
        => NodeId(node1) = NodeId(node2)

(***************************************************************************)
(* Specification SpecGraph: build_graph applied to a batch of parsed       *)
(* events of one format kind (ui/callbacks.py 163)                         *)
(***************************************************************************)
MaxEvents == 3

PathA == <<"C", ":", "\\", "a">>
PathAUpper == <<"C", ":", "\\", "A">>
PathB == <<"C", ":", "\\", "b">>
Ip1 == Str("10.0.0.1")
Ip2 == Str("10.0.0.2")

\* parsed Sysmon events: two process creations that name the same entities
\* in different spelling, a remote thread of a process into itself, an event
\* id without a rule of its own
SysmonEvents ==
    { [EventID |-> Str("1"), Computer |-> Str("HOST"), Image |-> PathA,
       ParentImage |-> PathB, User |-> Str("bob")],
      [EventID |-> Str("1"), Computer |-> Str("host"), Image |-> PathAUpper,
       ParentImage |-> PathB, User |-> Str("-")],
      [EventID |-> Str("8"), SourceImage |-> PathA, TargetImage |-> Str(" ") \o PathA],
      [EventID |-> Str("99"), Computer |-> Str("host"), Image |-> PathB,
       User |-> Str("bob")] }

\* the Message of a process creation: label lines for the new process and
\* its creator
ProcessMessage(new, creator) ==
    <<"New", " ", "Process", " ", "Name", ":", " ">> \o new \o Str("\n")
    \o <<"Creator", " ", "Process", " ", "Name", ":", " ">> \o creator

KeyvalueEvents ==
    { [EventCode |-> Str("4688"), ComputerName |-> Str("HOST"), User |-> Str("bob"),
       Message |-> ProcessMessage(PathA, PathB)],
      [EventCode |-> Str("4688"), ComputerName |-> Str("host"),
       Message |-> ProcessMessage(PathAUpper, PathB)],
      [EventCode |-> Str("4624"), ComputerName |-> Str("host"), User |-> Str("bob"),
       Message |-> <<"Source", " ", "Network", " ", "Address", ":", "\t">> \o Ip1],
      [EventCode |-> Str("1234"), ComputerName |-> Str("HOST"), User |-> Str("bob")] }

\* flattened JSON events; the third names no API call but a request URI
JsonEvents ==
    { ("eventName" :> Str("CreateUser")) @@ ("userIdentity.arn" :> <<"arn", "/", "bob">>)
        @@ ("sourceIPAddress" :> Ip1) @@ ("requestParameters.userName" :> Str("alice")),
      ("eventName" :> Str("createuser")) @@ ("userIdentity.userName" :> Str("bob")),
      ("eventName" :> Str("-")) @@ ("requestURI" :> <<"/", "x">>),
      ("eventName" :> Str("CreateUser")) @@ ("userIdentity.arn" :> <<"arn", "/", "bob">>)
        @@ ("userIdentity.userName" :> Str("bob"))
        @@ ("recipientAccountId" :> Str("1234")) @@ ("awsRegion" :> Str("eu")) }

ExchangeEvents ==
    { [client_ip |-> Ip1, server_ip |-> Ip2, username |-> Str("bob"),
       method |-> Str("GET"), uri_stem |-> <<"/", "owa">>,
       protocol_status |-> Str("200")],
      [client_ip |-> Ip1, server_ip |-> Ip2, username |-> Str("-"),
       method |-> Str("get"), uri_stem |-> <<"/", "owa">>,
       protocol_status |-> Str("404")],
      [client_ip |-> Ip1, username |-> Str("bob")],
      [server_ip |-> Ip2, method |-> Str("GET"), uri_stem |-> <<"/", "owa">>] }

\* the format kinds of parsers/detect.py and the events a parser of each
\* returns; no parser serves "unknown"
FormatTypes == {"xml_sysmon", "keyvalue", "json", "exchange", "unknown"}

EventsOf(fmt) ==
    CASE fmt = "xml_sysmon" -> SysmonEvents
      [] fmt = "keyvalue" -> KeyvalueEvents
      [] fmt = "json" -> JsonEvents
      [] fmt = "exchange" -> ExchangeEvents
      [] OTHER -> SysmonEvents

\* no allow-list, and one that names an event id, an event code and an action
\* name of the pools
AllowLists == {{}, {Str("1"), Str("4688"), Str("CreateUser")}}

ScoreIdle ==
    /\ coverage_pct = Rat(0, 1)
    /\ quality_avg = Rat(0, 1)
    /\ score = 0

InitGraph ==
    /\ ScanIdle
    /\ SampleIdle
    /\ format_type \in FormatTypes
    /\ allowed_eids \in AllowLists
    /\ events \in UNION {[1..n -> EventsOf(format_type)] : n \in 0..MaxEvents}
    /\ source = <<>>
    /\ max_events = 0
    /\ G = <<>>
    /\ pc = "parsed"
    /\ ScoreIdle
    /\ PipeIdle
    /\ NodeIdle
    /\ LoadIdle
    /\ StixIdle

BuildGraph ==
    /\ pc = "parsed"
    /\ G' = build_graph(events, format_type, allowed_eids)
    /\ pc' = "built"
    /\ UNCHANGED <<sampleVars, scanVars, loadVars, stixVars, scoreVars, pipeVars_data, nodeVars, source, max_events,
                   format_type, allowed_eids, events>>

NextGraph == BuildGraph

SpecGraph == InitGraph /\ [][NextGraph]_vars

(***************************************************************************)
(* Claims about the aggregator                                             *)
(***************************************************************************)
\* the count of every node id, the weight of every directed pair
NodeCounts(g) == {<<g.nodes[i].id, g.nodes[i].count>> : i \in DOMAIN g.nodes}
EdgeWeights(g) ==
    {<<g.edges[i].src, g.edges[i].dst, g.edges[i].weight>> : i \in DOMAIN g.edges}

\* the batch in the order a permutation of its positions gives
Reordered(p) == [i \in DOMAIN events |-> events[p[i]]]
Orderings == Permutations(DOMAIN events)

\* C6: whatever the order of one batch of events, build_graph returns the
\* same node ids with the same counts and the same directed pairs with the
\* same weights (and fails on one order only if it fails on every order).
C6_OrderLeavesCountsAndWeights ==
    pc = "built" =>
        \A p \in Orderings :
            LET g2 == build_graph(Reordered(p), format_type, allowed_eids)
            IN  /\ g2.raised = G.raised
                /\ NodeCounts(g2) = NodeCounts(G)
                /\ EdgeWeights(g2) = EdgeWeights(G)

\* a batch whose order shows: a node emitted by several events, with the
\* first-seen label depending on the order
C6_Witness ==
    /\ pc = "built"
    /\ G.raised = ""
    /\ \E i \in DOMAIN G.nodes : G.nodes[i].count >= 2
    /\ \E i \in DOMAIN G.edges : G.edges[i].weight >= 2
    /\ \E p \in Orderings :
           build_graph(Reordered(p), format_type, allowed_eids).nodes # G.nodes

\* what event k emitted, for the events that pass the allow-list
Contributing == {k \in DOMAIN events : Contributes(events[k], allowed_eids)}
Emitted(k) == extract_entities_and_edges(events[k], format_type)

NodeEmissions(node_id) ==
    {ki \in UNION {{<<k, i>> : i \in DOMAIN Emitted(k).nodes} : k \in Contributing} :
        Emitted(ki[1]).nodes[ki[2]].id = node_id}

EdgeEmissions(src, dst) ==
    {ki \in UNION {{<<k, i>> : i \in DOMAIN Emitted(k).edges} : k \in Contributing} :
        LET e == Emitted(ki[1]).edges[ki[2]]
        IN  e # None /\ e.src = src /\ e.dst = dst}

\* the first of a set of emissions: the earliest event, the earliest place
\* in its list
FirstOf(S) ==
    CHOOSE a \in S : \A b \in S : a[1] < b[1] \/ (a[1] = b[1] /\ a[2] <= b[2])

EmittedNodeIds ==
    UNION {{Emitted(k).nodes[i].id : i \in DOMAIN Emitted(k).nodes} : k \in Contributing}

EmittedPairs ==
    UNION {{<<Emitted(k).edges[i].src, Emitted(k).edges[i].dst>> :
                i \in {j \in DOMAIN Emitted(k).edges : Emitted(k).edges[j] # None}} :
           k \in Contributing}

\* C7: in the graph build_graph returns, every emitted node id occurs once,
\* with count the number of its emissions and the attributes of its first
\* emission; every emitted directed pair occurs once, with weight the number
\* of its non-null emissions and the attributes of its first emission.
C7_CountsEmissionsFirstSeenWins ==
    (pc = "built" /\ G.raised = "") =>
        /\ \A i, j \in DOMAIN G.nodes : G.nodes[i].id = G.nodes[j].id => i = j
        /\ {G.nodes[i].id : i \in DOMAIN G.nodes} = EmittedNodeIds
        /\ \A i \in DOMAIN G.nodes :
            LET em == NodeEmissions(G.nodes[i].id)
                f == FirstOf(em)
                n == Emitted(f[1]).nodes[f[2]]
            IN  /\ G.nodes[i].count = Cardinality(em)
                /\ G.nodes[i].count >= 1
                /\ G.nodes[i].label = n.label
                /\ G.nodes[i].entity_type = n.entity_type
                /\ G.nodes[i].full_value = n.full_value
        /\ \A i, j \in DOMAIN G.edges :
            (G.edges[i].src = G.edges[j].src /\ G.edges[i].dst = G.edges[j].dst)
                => i = j
        /\ {<<G.edges[i].src, G.edges[i].dst>> : i \in DOMAIN G.edges} = EmittedPairs
        /\ \A i \in DOMAIN G.edges :
            LET em == EdgeEmissions(G.edges[i].src, G.edges[i].dst)
                f == FirstOf(em)
                e == Emitted(f[1]).edges[f[2]]
            IN  /\ G.edges[i].weight = Cardinality(em)
                /\ G.edges[i].weight >= 1
                /\ G.edges[i].label = e.label
                /\ G.edges[i].relation = e.relation

\* a node and an edge that were both repeated, the repeat of the node with
\* another label than its first emission
C7_Witness ==
    /\ pc = "built"
    /\ G.raised = ""
    /\ \E i \in DOMAIN G.nodes :
        /\ G.nodes[i].count >= 2
        /\ \E ki \in NodeEmissions(G.nodes[i].id) :
               Emitted(ki[1]).nodes[ki[2]].label # G.nodes[i].label
    /\ \E i \in DOMAIN G.edges :
        /\ G.edges[i].weight >= 2
        /\ \E ki \in EdgeEmissions(G.edges[i].src, G.edges[i].dst) :
               Emitted(ki[1]).edges[ki[2]].label # G.edges[i].label

(***************************************************************************)
(* Specification SpecKeyValue: a key-value file is parsed and its events   *)
(* are folded into the graph (data/loader.py, ui/callbacks.py 158-163)     *)
(***************************************************************************)
MaxLines == 4

TimestampLine == <<"01/02/2023", " ", "3:04:05", " ", "PM">>
EventCodeLine == <<"EventCode", "=", "4688">>
NewProcessLine == <<"New", " ", "Process", " ", "Name", "=">> \o PathA
CreatorProcessLine == <<"Creator", " ", "Process", " ", "Name", "=">> \o PathB
MessageLine == <<"Message", "=", "created">>
\* a label line as Windows writes it inside a Message
IndentedNewProcessLine == <<"\t", "New", " ", "Process", " ", "Name", ":", "\t">> \o PathAUpper
BlankLine == <<>>

FileLines ==
    {TimestampLine, EventCodeLine, NewProcessLine, CreatorProcessLine,
     MessageLine, IndentedNewProcessLine, BlankLine}

\* files that open with a timestamp line, of up to MaxLines more lines
InitKeyValue ==
    /\ ScanIdle
    /\ SampleIdle
    /\ source \in {<<TimestampLine>> \o rest :
                      rest \in UNION {[1..n -> FileLines] : n \in 0..MaxLines}}
    /\ max_events \in {0, 1}
    /\ format_type = "keyvalue"
    /\ allowed_eids = {}
    /\ events = <<>>
    /\ G = <<>>
    /\ pc = "file"
    /\ ScoreIdle
    /\ PipeIdle
    /\ NodeIdle
    /\ LoadIdle
    /\ StixIdle

ParseKeyvalue ==
    /\ pc = "file"
    /\ events' = parse_keyvalue_events(source, max_events)
    /\ pc' = "parsed"
    /\ UNCHANGED <<sampleVars, scanVars, loadVars, stixVars, scoreVars, pipeVars_data, nodeVars, source, max_events,
                   format_type, allowed_eids, G>>

NextKeyValue == ParseKeyvalue \/ BuildGraph

SpecKeyValue == InitKeyValue /\ [][NextKeyValue]_vars

(***************************************************************************)
(* Claims about the extraction of a key-value process creation             *)
(***************************************************************************)
\* the process nodes and the "spawned" edges of an extraction
ProcessNodes(x) == SelectSeq(x.nodes, LAMBDA n : n.entity_type = "process")
SpawnedEdges(x) ==
    {x.edges[i] : i \in {j \in DOMAIN x.edges :
                            x.edges[j] # None /\ x.edges[j].label = Str("spawned")}}

\* two process nodes, of the creator and of the new process, and a
\* "spawned" edge from the first to the second
TwoProcessesAndSpawned(x, new, creator) ==
    /\ x.raised = ""
    /\ Len(ProcessNodes(x)) = 2
    /\ {ProcessNodes(x)[i].id : i \in 1..2}
           = {_node("process", new, <<>>).id, _node("process", creator, <<>>).id}
    /\ \E e \in SpawnedEdges(x) :
           /\ e.src = _node("process", creator, <<>>).id
           /\ e.dst = _node("process", new, <<>>).id

TimestampAt == {i \in DOMAIN source : TIMESTAMP_RE(Strip(source[i]))}
BlockStart(k) ==
    CHOOSE i \in TimestampAt : Cardinality({j \in TimestampAt : j <= i}) = k
BlockEnd(k) ==
    IF \E i \in TimestampAt : i > BlockStart(k)
        THEN (CHOOSE i \in TimestampAt :
                 i > BlockStart(k) /\ \A j \in TimestampAt : j > BlockStart(k) => i <= j) - 1
        ELSE Len(source)
BlockLines(k) == SubSeq(source, BlockStart(k) + 1, BlockEnd(k))

\* the line sets the label after optional indentation: the label, ":" or
\* "=", a value
LabelLine(line, label) ==
    LET t == Strip(line)
        n == Len(label)
    IN  /\ Len(t) > n + 1
        /\ SubSeq(t, 1, n) = label
        /\ t[n + 1] \in {":", "="}
        /\ Strip(SubSeq(t, n + 2, Len(t))) # <<>>
LabelValue(line, label) ==
    LET t == Strip(line) IN Strip(SubSeq(t, Len(label) + 2, Len(t)))

\* the first line of the block after line m that sets the label; 0 if none
FirstLabelLine(block, m, label) ==
    LET at == {i \in DOMAIN block : i > m /\ LabelLine(block[i], label)}
    IN  IF at = {} THEN 0 ELSE CHOOSE i \in at : \A j \in at : i <= j

\* the first unindented Message= line of the block; 0 if none
FirstMessageLine(block) ==
    LET at == {i \in DOMAIN block :
                  block[i] # <<>> /\ Strip(BeforeEquals(block[i])) = Str("Message")
                  /\ Head(block[i]) = "Message" /\ "=" \in Range(block[i])}
    IN  IF at = {} THEN 0 ELSE CHOOSE i \in at : \A j \in at : i <= j

NewProcessLabel == Label3("New", "Process", "Name")
CreatorProcessLabel == Label3("Creator", "Process", "Name")

\* event k has EventCode 4688 and its block names, in lines that follow its
\* Message= line, the new process and the creator process
ProcessCreationInMessage(k) ==
    LET block == BlockLines(k)
        m == FirstMessageLine(block)
    IN  /\ Get(events[k], "EventCode") = Str("4688")
        /\ m > 0
        /\ FirstLabelLine(block, m, NewProcessLabel) > 0
        /\ FirstLabelLine(block, m, CreatorProcessLabel) > 0

UserIdentities ==
    { <<>>,
      <<Item("userIdentity", JDict(<<Item("userName", JStr(Str("bob")))>>))>>,
      <<Item("userIdentity", JDict(<<Item("arn", JStr(<<"arn", "/", "bob">>))>>))>>,
      <<Item("userIdentity", JDict(<<Item("userName", JStr(Str("bob"))),
                                     Item("arn", JStr(<<"arn", "/", "alice">>))>>))>>,
      <<Item("userIdentity", JDict(<<Item("principalId", JStr(Str("1234")))>>))>>,
      <<Item("userIdentity", JDict(<<Item("userName", JNull)>>))>> }

EventNames ==
    { <<>>, <<Item("eventName", JStr(Str("CreateUser")))>>,
      <<Item("eventName", JStr(Str("-")))>> }

SourceIps ==
    { <<>>, <<Item("sourceIPAddress", JStr(Ip1))>>,
      <<Item("sourceIPs", JList(<<JStr(Ip2)>>))>> }

RequestParameters ==
    { <<>>,
      <<Item("requestParameters", JDict(<<Item("userName", JStr(Str("alice")))>>))>>,
      <<Item("requestParameters",
             JDict(<<Item("tags", JDict(<<Item("a", JDict(<<Item("b", JStr(Str("x")))>>))>>))>>)),
        Item("requestURI", JStr(<<"/", "x">>))>> }

JsonItems ==
    { JDict(u \o e \o i \o r) :
        u \in UserIdentities, e \in EventNames, i \in SourceIps, r \in RequestParameters }
    \cup {JStr(Str("bob"))}

InitJson ==
    /\ ScanIdle
    /\ SampleIdle
    /\ source \in {<<item>> : item \in JsonItems}
    /\ max_events \in {0, 1}
    /\ format_type = "json"
    /\ allowed_eids = {}
    /\ events = <<>>
    /\ G = <<>>
    /\ pc = "file"
    /\ ScoreIdle
    /\ PipeIdle
    /\ NodeIdle
    /\ LoadIdle
    /\ StixIdle

ParseJson ==
    /\ pc = "file"
    /\ events' = FlattenItems(source, <<>>, max_events)
    /\ pc' = "parsed"
    /\ UNCHANGED <<sampleVars, scanVars, loadVars, stixVars, scoreVars, pipeVars_data, nodeVars, source, max_events,
                   format_type, allowed_eids, G>>

NextJson == ParseJson \/ BuildGraph

SpecJson == InitJson /\ [][NextJson]_vars

(***************************************************************************)
(* Claims about the extraction of a JSON audit record                      *)
(***************************************************************************)
\* a value _node makes a node of
Sentinels == {<<>>, Str("-"), Str("NOT_TRANSLATED")}

\* C10: a flattened event with the keys eventName and userIdentity.userName
\* and without userIdentity.arn yields the user node of the
\* userIdentity.userName value, the api_call node of the eventName value and
\* a "called" edge from the first to the second.
C10_UserNameGivesUserAndCalled ==
    pc \in {"parsed", "built"} =>
        \A k \in DOMAIN events :
            LET ev == events[k]
                x == extract_entities_and_edges(ev, format_type)
                usr == _node("user", Get(ev, "userIdentity.userName"), <<>>)
                api == _node("api_call", Get(ev, "eventName"), <<>>)
            IN  (/\ Get(ev, "eventName") \notin Sentinels
                 /\ Get(ev, "userIdentity.userName") \notin Sentinels
                 /\ "userIdentity.arn" \notin DOMAIN ev)
                => /\ x.raised = ""
                   /\ \E i \in DOMAIN x.nodes : x.nodes[i] = usr
                   /\ \E i \in DOMAIN x.nodes : x.nodes[i] = api
                   /\ \E i \in DOMAIN x.edges :
                        /\ x.edges[i] # None
                        /\ x.edges[i].src = usr.id
                        /\ x.edges[i].dst = api.id
                        /\ x.edges[i].label = Str("called")

(***************************************************************************)
(* Specification SpecDetect: detect_format called twice on one file with   *)
(* one hint (data/loader.py 50, ui/callbacks.py)                           *)
(***************************************************************************)
MaxHeadLines == 3

LogNameLine == <<"LogName", "=", "Security">>
ExchangeLine ==
    <<"2023-01-02", " ", "03:04:05", " ", "10.0.0.2", " ", "GET", " ", "/owa",
      " ", "-", " ", "443", " ", "bob", " ", "10.0.0.1">>
\* a line of a key-value export that opens with an ISO timestamp
DateKeyvalueLine ==
    <<"2023-01-02", " ", "03:04:05", " ", "LogName", "=", "Security", " ",
      "EventCode", "=", "4688">>
ArrayOpenLine == <<"[">>
PadLine == <<Pad>>

HeadLines ==
    {XmlLineProcess, JsonLineUser, ArrayOpenLine, LogNameLine, EventCodeLine,
     ExchangeLine, DateKeyvalueLine, MessageLine, PadLine}

Paths == {<<"sample", ".json">>, <<"sample", ".log">>}

\* None, two recognized hints, a hint that decides nothing
Hints ==
    {<<>>, <<"XmlWinEventLog">>, <<"aws", ":", "CloudTrail">>,
     <<"WinEventLog", ":", "Security">>}

File(path, is_file, readable, size, lines) ==
    [path |-> path, is_file |-> is_file, readable |-> readable, size |-> size,
     lines |-> lines]

\* the size of a file of these lines
RECURSIVE FileSize(_)
FileSize(lines) ==
    IF lines = <<>> THEN 0 ELSE StrLenOf(Head(lines)) + 1 + FileSize(Tail(lines))

\* the files of up to MaxHeadLines lines, and a path that cannot be opened
DetectFiles ==
    { File(p, TRUE, TRUE, FileSize(lines), lines) :
        p \in Paths,
        lines \in UNION {[1..n -> HeadLines] : n \in 0..MaxHeadLines} }
    \cup { File(p, FALSE, FALSE, 0, <<>>) : p \in Paths }

InitDetect ==
    /\ ScanIdle
    /\ SampleIdle
    /\ file \in DetectFiles
    /\ sourcetype \in Hints
    /\ formats = <<>>
    /\ result = "none"
    /\ calls = <<>>
    /\ pc = "detect"
    /\ source = <<>>
    /\ max_events = 0
    /\ format_type = "none"
    /\ allowed_eids = {}
    /\ events = <<>>
    /\ G = <<>>
    /\ ScoreIdle
    /\ PipeIdle
    /\ NodeIdle
    /\ StixIdle

\* a call that reads the file away: what it read is gone from the file
DetectFormatConsumesFile ==
    /\ pc = "detect"
    /\ Len(formats) < 2
    /\ formats' = Append(formats, detect_format(file, sourcetype))
    /\ file' = [file EXCEPT !.lines = <<>>]
    /\ UNCHANGED <<sampleVars, scanVars, stixVars, scoreVars, pipeVars, nodeVars, graphVars, sourcetype,
                   result, calls>>

DetectFormat ==
    /\ pc = "detect"
    /\ Len(formats) < 2
    /\ formats' = Append(formats, detect_format(file, sourcetype))
    /\ UNCHANGED <<sampleVars, scanVars, stixVars, scoreVars, pipeVars, nodeVars, graphVars, file,
                   sourcetype, result, calls>>

NextDetect == DetectFormat

SpecDetect == InitDetect /\ [][NextDetect]_vars

(***************************************************************************)
(* Claims about the format detector                                        *)
(***************************************************************************)
FormatKinds == {"xml_sysmon", "json", "keyvalue", "exchange", "unknown"}

RecognizedHint(hint) ==
    \E atom \in {"xmlwineventlog", "sysmon", "json", "cloudtrail"} :
        Contains(Lower(hint), atom)

\* the documented policy: the hint first, then the structural rules on the
\* header in one priority, whatever the file is called
RuleList(f, hint) ==
    LET st == Lower(hint)
        head == LStrip(ReadFile(f.lines, 1000))
    IN  IF Contains(st, "xmlwineventlog") \/ Contains(st, "sysmon") THEN "xml_sysmon"
        ELSE IF Contains(st, "json") \/ Contains(st, "cloudtrail") THEN "json"
        ELSE IF StartsWith(head, "<Event") THEN "xml_sysmon"
        ELSE IF StartsWith(head, "{") \/ StartsWith(head, "[") THEN "json"
        ELSE IF ContainsKey(head, "LogName") /\ ContainsKey(head, "EventCode")
            THEN "keyvalue"
        ELSE IF DateTimePrefix(head) THEN "exchange"
        ELSE IF LinesWithEq(head) >= 3 THEN "keyvalue"
        ELSE "unknown"

\* C14: on a file that can be read, detect_format returns what the ordered
\* rule list gives (hint, then '<Event', '{' or '[', LogName= with EventCode=,
\* the date-time prefix, three key=value lines, else unknown), with the same
\* priority under every file name, and always one of the five kinds
C14_DetectEqualsRuleList ==
    (pc = "detect" /\ formats # <<>> /\ file.readable) =>
        /\ formats[1] = RuleList(file, sourcetype)
        /\ formats[1] \in FormatKinds

\* C15: without a recognized hint, a file that cannot be opened is of
\* format unknown, whatever its path ends in
C15_UnreadableIsUnknown ==
    (pc = "detect" /\ formats # <<>> /\ ~RecognizedHint(sourcetype) /\ ~file.readable) =>
        formats[1] = "unknown"

MaxRecords == 7

TextLine == <<"hello">>

\* what one record of a file of each kind takes, and a text of no kind
Units ==
    {<<XmlLineProcess>>, <<JsonLineUser>>, <<ExchangeLine>>,
     <<TimestampLine, EventCodeLine>>, <<TextLine>>}

RECURSIVE Repeat(_, _)
Repeat(lines, k) == IF k = 0 THEN <<>> ELSE lines \o Repeat(lines, k - 1)

\* the size os.path.getsize reports: that of the text, or one at and one
\* over the size limit, of a file whose records are that much longer
FileSizes(lines) == {FileSize(lines), MAX_FILE_SIZE, MAX_FILE_SIZE + 5}

\* files that can be read, files that cannot be opened, paths of no file
LoadFiles ==
    UNION { { File(p, TRUE, TRUE, size, Repeat(unit, k)) :
                size \in FileSizes(Repeat(unit, k)) } :
            p \in Paths, unit \in Units, k \in 0..MaxRecords }
    \cup { File(p, TRUE, FALSE, size, <<>>) :
             p \in Paths, size \in {0, MAX_FILE_SIZE + 5} }
    \cup { File(p, FALSE, FALSE, 0, <<>>) : p \in Paths }

LoadHints == {<<>>, <<"aws", ":", "CloudTrail">>, <<"WinEventLog", ":", "Security">>}

InitLoad ==
    /\ ScanIdle
    /\ SampleIdle
    /\ file \in LoadFiles
    /\ sourcetype \in LoadHints
    /\ max_events \in {0, 1, 7, DEFAULT_MAX_EVENTS}
    /\ formats = <<>>
    /\ result = "none"
    /\ calls = <<>>
    /\ pc = "load"
    /\ source = <<>>
    /\ format_type = "none"
    /\ allowed_eids = {}
    /\ events = <<>>
    /\ G = <<>>
    /\ ScoreIdle
    /\ PipeIdle
    /\ NodeIdle
    /\ StixIdle

LoadFile ==
    /\ pc = "load"
    /\ result' = load_file(file, max_events, sourcetype)
    /\ calls' = ParserCalls(file, sourcetype)
    /\ pc' = "loaded"
    /\ UNCHANGED <<sampleVars, scanVars, stixVars, scoreVars, pipeVars_data, nodeVars, graphVars, file,
                   sourcetype, formats>>

NextLoad == LoadFile

SpecLoad == InitLoad /\ [][NextLoad]_vars

(***************************************************************************)
(* Claims about load_file                                                  *)
(***************************************************************************)
\* C13: for every file and every max_events > 0 the loaded count is at most
\* max_events, and a truncated result has total_estimated >= loaded
C13_TruncationAccounting ==
    (pc = "loaded" /\ max_events > 0) =>
        /\ result.loaded <= max_events
        /\ result.truncated => result.total_estimated >= result.loaded

\* the call met a file that is missing, a format unknown, or a parser that
\* raised
ParserRaised ==
    file.is_file /\ ~file.readable /\ detect_format(file, sourcetype) # "unknown"
FailureCase ==
    \/ ~file.is_file
    \/ file.is_file /\ detect_format(file, sourcetype) = "unknown"
    \/ ParserRaised

\* C17: on a missing file, an unknown format or a parser exception load_file
\* returns (it does not raise) a result of no events, loaded 0, truncated
\* false and total_estimated 0; on an unknown format it calls no parser
C17_FailuresGiveEmptyResult ==
    (pc = "loaded" /\ FailureCase) =>
        /\ result.raised = ""
        /\ result.events = <<>>
        /\ result.loaded = 0
        /\ result.truncated = FALSE
        /\ result.total_estimated = 0
        /\ result.format = "unknown" => calls = <<>>

C17_Witness ==
    /\ pc = "loaded"
    /\ ParserRaised
    /\ result.error = Str("Parse error")
    /\ calls = <<"json">>
    /\ file.size > MAX_FILE_SIZE

(***************************************************************************)
(* Specification SpecParse: the parser of a format called on a file of     *)
(* that format, some of whose records are malformed (data/loader.py 61-62) *)
(***************************************************************************)
MaxParseLines == 3

CommentLine == <<"#", "Fields">>
\* a date and a time with nothing after them
DateOnlyLine == <<"2023-01-02", " ", "03:04:05">>

XmlLines == {XmlLineProcess, XmlLineNamespace, XmlLineThread, XmlLineEmpty,
             XmlLineBroken, BlankLine}
JsonLines == {JsonLineUser, JsonLineIp, JsonLineText, JsonLineBroken, BlankLine}
ExchangeLines == {ExchangeLine, CommentLine, DateOnlyLine, TextLine, BlankLine}
KeyvalueLines == {TimestampLine, EventCodeLine, MessageLine, TextLine, BlankLine}

SeqsOf(pool, n) == UNION {[1..k -> pool] : k \in 0..n}

\* the lines of an array file: the bracket, the elements with a comma
\* between them, the bracket
ArrayLines(items) ==
    <<ArrayOpenLine>>
    \o [i \in DOMAIN items |->
            IF i < Len(items) THEN items[i] \o <<",">> ELSE items[i]]
    \o <<<<"]">>>>

\* the array files of up to MaxParseLines elements
ArrayFiles ==
    {ArrayLines(items) :
        items \in SeqsOf({JsonLineUser, JsonLineIp, JsonLineText, JsonLineBroken},
                         MaxParseLines)}

ParseInputs ==
    ({"xml_sysmon"} \X SeqsOf(XmlLines, MaxParseLines))
    \cup ({"json"} \X (SeqsOf(JsonLines, MaxParseLines) \cup ArrayFiles))
    \cup ({"exchange"} \X SeqsOf(ExchangeLines, MaxParseLines))
    \cup ({"keyvalue"} \X SeqsOf(KeyvalueLines, MaxParseLines))

InitParse ==
    /\ ScanIdle
    /\ SampleIdle
    /\ \E input \in ParseInputs :
        /\ format_type = input[1]
        /\ source = input[2]
    /\ max_events \in {0, 1}
    /\ allowed_eids = {}
    /\ events = <<>>
    /\ G = <<>>
    /\ pc = "file"
    /\ ScoreIdle
    /\ PipeIdle
    /\ NodeIdle
    /\ LoadIdle
    /\ StixIdle

\* parser(file_path, max_events=limit) on a file that opens
ParseFile ==
    /\ pc = "file"
    /\ events' = CallParser(format_type,
                            File(<<"sample", ".log">>, TRUE, TRUE,
                                 FileSize(source), source),
                            max_events).events
    /\ pc' = "parsed"
    /\ UNCHANGED <<sampleVars, scanVars, loadVars, stixVars, scoreVars, pipeVars_data, nodeVars, source,
                   max_events, format_type, allowed_eids, G>>

NextParse == ParseFile

SpecParse == InitParse /\ [][NextParse]_vars

(***************************************************************************)
(* Claims about the parsers                                                *)
(***************************************************************************)
\* the records of a file that are well formed, each as the event it is, in
\* file order
XmlRecord(line) ==
    LET root == ET_fromstring(RemoveNamespaces(Strip(line), 1))
    IN  IF Strip(line) # <<>> /\ Head(Strip(line)) = "<Event" /\ root # ParseError
            /\ _extract_event(root) # <<>>
            THEN <<_extract_event(root)>>
            ELSE <<>>

JsonRecord(text) ==
    IF DecodeValue(Strip(text)).kind = "dict"
        THEN <<_flatten_json(DecodeValue(Strip(text)))>>
        ELSE <<>>

ExchangeRecord(line) ==
    IF DATE_LINE_RE(Strip(line)) THEN <<ExchangeEvent(Strip(line))>> ELSE <<>>

RECURSIVE Concat(_)
Concat(seqs) == IF seqs = <<>> THEN <<>> ELSE Head(seqs) \o Concat(Tail(seqs))

Records(lines, Record(_)) == Concat([i \in DOMAIN lines |-> Record(lines[i])])

IsArrayFile(lines) ==
    Strip(Content(lines)) # <<>> /\ Head(Strip(Content(lines))) = "["

\* the elements of an array file: what stands between its brackets, split
\* at the commas
ArrayElements(lines) ==
    LET t == SelectSeq(Content(lines), LAMBDA a : a \notin WhiteSpace)
    IN  IF Len(t) <= 2 THEN <<>> ELSE SplitCommas(SubSeq(t, 2, Len(t) - 1), <<>>)

TimestampsOf(lines) ==
    LET stamps == SelectSeq(lines, LAMBDA line : TIMESTAMP_RE(Strip(line)))
    IN  [k \in DOMAIN stamps |-> Strip(stamps[k])]

WellFormedRecords ==
    CASE format_type = "xml_sysmon" -> Records(source, XmlRecord)
      [] format_type = "exchange" -> Records(source, ExchangeRecord)
      [] format_type = "json" /\ IsArrayFile(source) ->
            Records(ArrayElements(source), JsonRecord)
      [] format_type = "json" /\ ~IsArrayFile(source) -> Records(source, JsonRecord)

\* C18: a parser called without a cap returns every well-formed record of
\* the file, in file order, whatever malformed records stand between them
\* (an <Event> line that parses, a line or an array element that decodes to
\* an object, a line of date, time and fields, a block under a timestamp
\* line); it does not raise on a file that opens
C18_MalformedRecordsSkipped ==
    (pc = "parsed" /\ max_events = 0) =>
        IF format_type = "keyvalue"
            THEN [k \in DOMAIN events |-> events[k]["Timestamp"]] = TimestampsOf(source)
            ELSE events = WellFormedRecords

\* the same, of every file but the array files
C18_ExceptArrayFiles ==
    (pc = "parsed" /\ max_events = 0 /\ ~(format_type = "json" /\ IsArrayFile(source))) =>
        IF format_type = "keyvalue"
            THEN [k \in DOMAIN events |-> events[k]["Timestamp"]] = TimestampsOf(source)
            ELSE events = WellFormedRecords

(***************************************************************************)
(* SpecStix: load_stix_data over a bundle of a tactic, a data source,      *)
(* three data components, three techniques, and up to MaxRelationships     *)
(* relationships among them.  One technique, one data component, and the   *)
(* data source together with the tactic are revoked or deprecated in some  *)
(* bundles and live in the others.                                         *)
(***************************************************************************)
MaxRelationships == 3

StixObject(otype, id) ==
    [type |-> otype, id |-> id, revoked |-> FALSE, x_mitre_deprecated |-> FALSE,
     name |-> <<>>, x_mitre_shortname |-> "", external_references |-> <<>>,
     x_mitre_data_source_ref |-> "", relationship_type |-> "",
     source_ref |-> "", target_ref |-> ""]

AttackPattern(id, name, refs, revoked) ==
    [StixObject("attack-pattern", id) EXCEPT
        !.name = name, !.external_references = refs, !.revoked = revoked]

DataComponent(id, name, ref, deprecated) ==
    [StixObject("x-mitre-data-component", id) EXCEPT
        !.name = name, !.x_mitre_data_source_ref = ref, !.x_mitre_deprecated = deprecated]

DataSource(id, name, revoked) ==
    [StixObject("x-mitre-data-source", id) EXCEPT !.name = name, !.revoked = revoked]

Tactic(id, shortname, refs, deprecated) ==
    [StixObject("x-mitre-tactic", id) EXCEPT
        !.name = <<"Execution">>, !.x_mitre_shortname = shortname,
        !.external_references = refs, !.x_mitre_deprecated = deprecated]

Relationship(id, rtype, src, tgt) ==
    [StixObject("relationship", id) EXCEPT
        !.relationship_type = rtype, !.source_ref = src, !.target_ref = tgt]

ProcessCreation == <<"Process", " ", "Creation">>

\* the objects of a bundle that are not relationships
StixObjects(ap3_revoked, dc2_deprecated, ds1_revoked) ==
    <<Tactic("ta1", "execution", <<"TA0002">>, ds1_revoked),
      DataSource("ds1", <<"Process">>, ds1_revoked),
      DataComponent("dc1", ProcessCreation, "ds1", FALSE),
      DataComponent("dc2", <<"File", " ", "Access">>, "ds1", dc2_deprecated),
      DataComponent("dc3", ProcessCreation, "", FALSE),
      AttackPattern("ap1", <<"OS Credential Dumping">>, <<"T1003">>, FALSE),
      AttackPattern("ap2", <<"LSASS Memory">>, <<"CAPEC-1", "T1003.001">>, FALSE),
      AttackPattern("ap3", <<"Command and Scripting Interpreter">>, <<"T1059">>,
                    ap3_revoked)>>

StixRelationships ==
    {Relationship("r1", "detects", "dc1", "ap1"),
     Relationship("r2", "detects", "dc1", "ap3"),
     Relationship("r3", "detects", "dc2", "ap1"),
     Relationship("r4", "detects", "dc3", "ap1"),
     [Relationship("r5", "detects", "dc1", "ap2") EXCEPT !.revoked = TRUE],
     Relationship("r6", "subtechnique-of", "ap2", "ap1"),
     Relationship("r7", "subtechnique-of", "ap3", "ap1"),
     Relationship("r8", "detects", "dc2", "ap3"),
     [Relationship("r9", "subtechnique-of", "ap2", "ap1")
        EXCEPT !.x_mitre_deprecated = TRUE]}

InitStix ==
    /\ ScanIdle
    /\ SampleIdle
    /\ \E ap3_revoked \in BOOLEAN, dc2_deprecated \in BOOLEAN, ds1_revoked \in BOOLEAN :
        \E relationships \in SeqsOf(StixRelationships, MaxRelationships) :
            bundle = StixObjects(ap3_revoked, dc2_deprecated, ds1_revoked)
                         \o relationships
    /\ stix_data = "none"
    /\ pc = "stix"
    /\ ScoreIdle
    /\ PipeIdle
    /\ NodeIdle
    /\ GraphIdle
    /\ LoadIdle

LoadStixData ==
    /\ pc = "stix"
    /\ stix_data' = load_stix_data(bundle)
    /\ pc' = "stix_loaded"
    /\ UNCHANGED <<sampleVars, scanVars, bundle, loadVars, graphVars, scoreVars, pipeVars_data, nodeVars>>

NextStix == LoadStixData

SpecStix == InitStix /\ [][NextStix]_vars

(***************************************************************************)
(* Claims about load_stix_data                                             *)
(***************************************************************************)
Dead(obj) == obj.revoked \/ obj.x_mitre_deprecated
DeadIds(objects) == {objects[i].id : i \in {j \in DOMAIN objects : Dead(objects[j])}}

\* a relationship that is revoked or deprecated itself, or whose source or
\* target is
Touching(objects, obj) ==
    /\ obj.type = "relationship"
    /\ \/ Dead(obj)
       \/ obj.source_ref \in DeadIds(objects)
       \/ obj.target_ref \in DeadIds(objects)

\* the bundle without its revoked and deprecated objects and without the
\* relationships that touch them
Cleaned(objects) ==
    SelectSeq(objects, LAMBDA obj : ~Dead(obj) /\ ~Touching(objects, obj))

\* every entry of an index is the entry of a live object of its type
EntriesAreLive(index, objects, otype, Key(_)) ==
    \A i \in DOMAIN index :
        \E j \in DOMAIN objects :
            /\ ~Dead(objects[j])
            /\ objects[j].type = otype
            /\ objects[j].id = index[i].value.stix_id
            /\ Key(objects[j]) = index[i].key

NameOf(obj) == obj.name
ShortnameOf(obj) == obj.x_mitre_shortname

NoDeadObjectAppears ==
    /\ EntriesAreLive(stix_data.techniques, bundle, "attack-pattern", _external_id)
    /\ EntriesAreLive(stix_data.tactics, bundle, "x-mitre-tactic", ShortnameOf)
    /\ EntriesAreLive(stix_data.data_sources, bundle, "x-mitre-data-source", NameOf)
    /\ EntriesAreLive(stix_data.data_components, bundle, "x-mitre-data-component",
                      NameOf)

\* C19: in the model load_stix_data returns, no revoked or deprecated object
\* is a technique, tactic, data source or data component, and the model is
\* the one the bundle gives without its revoked and deprecated objects and
\* without every relationship that is revoked or deprecated itself or has
\* such a source or target: those relationships add no component to a
\* technique, no technique to a component and no sub-technique parent.
C19_RevokedExcludedEntirely ==
    pc = "stix_loaded" =>
        /\ NoDeadObjectAppears
        /\ stix_data = load_stix_data(Cleaned(bundle))

\* a bundle with a revoked or deprecated object, a live 'detects' and a live
\* 'subtechnique-of' relationship that touch one, and a live relationship
\* that took effect
C19_Witness ==
    /\ pc = "stix_loaded"
    /\ DeadIds(bundle) # {}
    /\ \E i \in DOMAIN bundle :
        /\ Touching(bundle, bundle[i]) /\ ~Dead(bundle[i])
        /\ bundle[i].relationship_type = "detects"
    /\ \E i \in DOMAIN bundle :
        /\ Touching(bundle, bundle[i]) /\ ~Dead(bundle[i])
        /\ bundle[i].relationship_type = "subtechnique-of"
    /\ \E i \in DOMAIN stix_data.techniques :
        stix_data.techniques[i].value.data_components # <<>>

NoDuplicate(s) == \A i, j \in DOMAIN s : s[i] = s[j] => i = j

\* C20: after load_stix_data, component c is in the required-component list
\* of technique t exactly when t is in the technique list of c, every name in
\* either list is an entry of the other index, and neither list holds an
\* entry twice.
C20_DetectsIndexesMirror ==
    pc = "stix_loaded" =>
        /\ \A i \in DOMAIN stix_data.techniques :
            LET t == stix_data.techniques[i]
            IN  /\ NoDuplicate(ComponentsOf(t.value))
                /\ \A k \in DOMAIN t.value.data_components :
                    DHas(stix_data.data_components, t.value.data_components[k].component)
                /\ \A j \in DOMAIN stix_data.data_components :
                    LET c == stix_data.data_components[j]
                    IN  InSeq(c.key, ComponentsOf(t.value))
                            <=> InSeq(t.key, c.value.techniques)
        /\ \A j \in DOMAIN stix_data.data_components :
            LET c == stix_data.data_components[j]
            IN  /\ NoDuplicate(c.value.techniques)
                /\ \A k \in DOMAIN c.value.techniques :
                    DHas(stix_data.techniques, c.value.techniques[k])

\* a bundle in which the same live 'detects' relationship comes twice and a
\* second component of the same name detects the same technique
C20_Witness ==
    /\ pc = "stix_loaded"
    /\ \E i, j \in DOMAIN bundle :
        /\ i < j
        /\ bundle[i] = bundle[j]
        /\ bundle[i].relationship_type = "detects"
        /\ ~Touching(bundle, bundle[i])
    /\ \E i \in DOMAIN bundle :
        bundle[i].relationship_type = "detects" /\ bundle[i].source_ref = "dc3"
    /\ ComponentsOf(DGet(stix_data.techniques, "T1003", <<>>)) = <<ProcessCreation>>
    /\ DGet(stix_data.data_components, ProcessCreation, <<>>).techniques = <<"T1003">>

Discriminant(event, fmt) ==
    CASE fmt = "xml_sysmon" -> Get(event, "EventID")
      [] fmt = "keyvalue" -> Get(event, "EventCode")
      [] fmt = "json" -> Get(event, "eventName")

DiscriminantFormats == {"xml_sysmon", "keyvalue", "json"}

\* the events whose discriminant the allow-list names; all of them when the
\* allow-list is empty
AllowedEvents(evs, fmt, allowed) ==
    IF allowed = {} THEN evs
    ELSE SelectSeq(evs, LAMBDA event : Discriminant(event, fmt) \in allowed)

\* C23: for the xml, key-value and json kinds the graph build_graph returns
\* is the graph of exactly the events whose discriminant is in the
\* allow-list (of all events when the allow-list is empty): those events
\* contribute and the others leave the graph unchanged.
C23_AllowListFiltersByDiscriminant ==
    (pc = "built" /\ format_type \in DiscriminantFormats) =>
        G = build_graph(AllowedEvents(events, format_type, allowed_eids),
                        format_type, {})

\* the same for the xml kind alone, whose discriminant is the field the
\* allow-list is tested against
C23_XmlEvents ==
    (pc = "built" /\ format_type = "xml_sysmon") =>
        G = build_graph(AllowedEvents(events, format_type, allowed_eids),
                        format_type, {})

(***************************************************************************)
(* Claims about the entries and the overall score of calculate_visibility  *)
(***************************************************************************)
\* the sum of the scores, counted score by score
ScoreTotal ==
    LET scored(s) == {t \in DOMAIN stix_techniques : VScore(t).score = s}
    IN  Cardinality(scored(1)) + 2 * Cardinality(scored(2))
            + 3 * Cardinality(scored(3)) + 4 * Cardinality(scored(4))
            + 5 * Cardinality(scored(5))

\* C21: calculate_visibility gives one entry to every technique of the
\* knowledge base; a technique without required components has score 0 and
\* coverage_pct 0 whatever is detected or rated; overall_score (in
\* hundredths) is the hundredth nearest to the mean of all the scores, the
\* zeros of those techniques included, and 0 when there is no technique.
C21_EveryTechniqueScoredZerosInMean ==
    pc = "scored" =>
        LET n == Cardinality(DOMAIN stix_techniques)
        IN  /\ DOMAIN visibility.technique_scores = DOMAIN stix_techniques
            /\ \A t \in DOMAIN stix_techniques :
                /\ VScore(t).score \in 0..5
                /\ stix_techniques[t] = <<>> =>
                       VScore(t).score = 0 /\ VScore(t).coverage_pct = 0
            /\ n = 0 => visibility.overall_score = 0
            /\ n > 0 =>
                   2 * Abs(visibility.overall_score * n - 100 * ScoreTotal) <= n

\* a technique without required components beside two scored above 0, with
\* components detected and rated: the mean over three is not the mean over two
C21_Witness ==
    /\ pc = "scored"
    /\ detected # {}
    /\ \E c \in detected : c \in DOMAIN ds_admin /\ DimsSum(ds_admin[c]) > 0
    /\ Cardinality(DOMAIN stix_techniques) = 3
    /\ Cardinality(WithReqs) = 2
    /\ \A t \in WithReqs : VScore(t).score > 0
    /\ ScoreTotal % 6 \in {1, 5}

(***************************************************************************)
(* Claims about a startup without a rating store                           *)
(***************************************************************************)
\* C30: when load_data_sources_admin finds no store, the store in use is the
\* generated one, which rates every detected component and rates it 0 in
\* every dimension; in that run calculate_visibility gives every technique
\* quality_avg 0 and no technique the score 5.
C30_AbsentStoreRatesZero ==
    (pc \in {"admin_loaded", "scored"} /\ DOMAIN ds_admin_on_file = {}) =>
        /\ DOMAIN ds_admin = detected
        /\ \A c \in detected : ds_admin[c] = Quality(0, 0, 0, 0, 0)
        /\ pc = "scored" =>
               \A t \in DOMAIN stix_techniques :
                   /\ VScore(t).quality_avg = 0
                   /\ VScore(t).score <= 4

\* a startup without a store in which a technique with every required
\* component detected got the score 4
C30_Witness ==
    /\ pc = "scored"
    /\ DOMAIN ds_admin_on_file = {}
    /\ \E t \in WithReqs :
        /\ Range(stix_techniques[t]) \subseteq detected
        /\ VScore(t).score = 4

(***************************************************************************)
(* Claims about the endpoints of the edges                                 *)
(***************************************************************************)
NodeOf(g, node_id) == g.nodes[CHOOSE i \in DOMAIN g.nodes : g.nodes[i].id = node_id]

\* the node ids the extractor emitted for the events that contribute
EmittedIds ==
    UNION {{extract_entities_and_edges(events[k], format_type).nodes[i].id :
                i \in DOMAIN extract_entities_and_edges(events[k], format_type).nodes} :
           k \in {j \in DOMAIN events : Contributes(events[j], allowed_eids)}}

\* C29: in every graph build_graph returns, each endpoint of each edge is a
\* node the extractor emitted for some contributing event, with an
\* entity_type of the twelve and a count of at least 1, and the graph holds
\* no node that came only from the insertion of an edge.
C29_EndpointsAreEmittedNodes ==
    (pc = "built" /\ G.raised = "") =>
        /\ \A i \in DOMAIN G.edges :
            \A end \in {G.edges[i].src, G.edges[i].dst} :
                /\ has_node(G, end)
                /\ end \in EmittedIds
                /\ NodeOf(G, end).entity_type \in ENTITY_TYPES
                /\ NodeOf(G, end).count >= 1
        /\ \A i \in DOMAIN G.nodes :
            /\ G.nodes[i].id \in EmittedIds
            /\ G.nodes[i].entity_type \in ENTITY_TYPES
            /\ G.nodes[i].count >= 1

\* a graph of delimited-text events with a resource node and three edges
C29_Witness ==
    /\ pc = "built"
    /\ G.raised = ""
    /\ format_type = "exchange"
    /\ Len(G.edges) >= 3
    /\ \E i \in DOMAIN G.nodes : G.nodes[i].entity_type = "resource"

(***************************************************************************)
(* SpecFallback: build_graph over xml and key-value events whose event id  *)
(* or event code has no rule of its own; every subset of the host, process *)
(* and user fields is present.                                             *)
(***************************************************************************)
MaxFallbackEvents == 2

\* the event with the fields named in keys
Fields(event, keys) == [k \in keys |-> event[k]]

GenericSysmonEvents ==
    LET full == [EventID |-> Str("99"), Computer |-> Str("host"), Image |-> PathB,
                 User |-> Str("bob")]
    IN  {Fields(full, {"EventID"} \cup S) : S \in SUBSET {"Computer", "Image", "User"}}
        \cup {[full EXCEPT !.User = Str("-")]}

GenericKeyvalueEvents ==
    LET full == [EventCode |-> Str("1234"), ComputerName |-> Str("HOST"),
                 User |-> Str("bob")]
    IN  {Fields(full, {"EventCode"} \cup S) : S \in SUBSET {"ComputerName", "User"}}
        \cup {[full EXCEPT !.User = Str("NOT_TRANSLATED")]}

InitFallback ==
    /\ ScanIdle
    /\ SampleIdle
    /\ \/ /\ format_type = "xml_sysmon"
          /\ events \in SeqsOf(GenericSysmonEvents, MaxFallbackEvents)
       \/ /\ format_type = "keyvalue"
          /\ events \in SeqsOf(GenericKeyvalueEvents, MaxFallbackEvents)
    /\ allowed_eids = {}
    /\ source = <<>>
    /\ max_events = 0
    /\ G = <<>>
    /\ pc = "parsed"
    /\ ScoreIdle
    /\ PipeIdle
    /\ NodeIdle
    /\ LoadIdle
    /\ StixIdle

SpecFallback == InitFallback /\ [][NextGraph]_vars

(***************************************************************************)
(* Claims about the generic rule of the extractors                         *)
(***************************************************************************)
\* the event ids and event codes that have a rule of their own
SpecificSysmonIds ==
    {Str(id) : id \in {"1", "3", "6", "7", "8", "10", "11", "12", "13", "14", "22"}}
SpecificEventCodes ==
    {Str(code) : code \in {"7045", "4688", "592", "4624", "4625", "4104"}}

IsGeneric(event, fmt) ==
    \/ fmt = "xml_sysmon" /\ Get(event, "EventID") \notin SpecificSysmonIds
    \/ fmt = "keyvalue" /\ Get(event, "EventCode") \notin SpecificEventCodes

GenericLabel(event, fmt) ==
    Str("event_") \o (IF fmt = "xml_sysmon" THEN Get(event, "EventID")
                      ELSE Get(event, "EventCode"))

\* the extractor returned nodes and an event_<id> edge between two of them,
\* and the graph holds that edge
HasGenericEdge(event, fmt, g) ==
    LET x == extract_entities_and_edges(event, fmt)
        ids == {x.nodes[i].id : i \in DOMAIN x.nodes}
    IN  /\ x.raised = ""
        /\ x.nodes # <<>>
        /\ \E i \in DOMAIN x.edges :
            /\ x.edges[i].label = GenericLabel(event, fmt)
            /\ x.edges[i].src \in ids
            /\ x.edges[i].dst \in ids
            /\ has_edge(g, x.edges[i].src, x.edges[i].dst)

\* C22: for every xml or key-value event whose event id or event code has no
\* rule of its own, the extractor returns a non-empty result with an
\* event_<id> edge between entities of the event, and build_graph puts that
\* edge in the graph.
C22_EveryGenericEventGivesAnEdge ==
    pc = "built" =>
        \A k \in DOMAIN events :
            IsGeneric(events[k], format_type) =>
                HasGenericEdge(events[k], format_type, G)

\* the entities the generic rule connects are named by the event: process
\* and host of an xml event, user and host of a key-value event
NamesBothEntities(event, fmt) ==
    IF fmt = "xml_sysmon"
        THEN /\ _node("process", Get(event, "Image"), <<>>) # None
             /\ _node("host", Get(event, "Computer"), <<>>) # None
        ELSE /\ _node("user", Get(event, "User"), <<>>) # None
             /\ _node("host", Get(event, "ComputerName"), <<>>) # None

\* the same for the events that name both entities the generic rule connects
C22_WhenBothEntitiesNamed ==
    pc = "built" =>
        \A k \in DOMAIN events :
            (IsGeneric(events[k], format_type)
                    /\ NamesBothEntities(events[k], format_type)) =>
                HasGenericEdge(events[k], format_type, G)

(***************************************************************************)
(* SpecScan: parse_keyvalue_events read line by line.  ScanNextLine is one *)
(* turn of the loop of lines 20-50 (with the return of line 28), ScanEnd   *)
(* the lines 52-56 after the last line.                                    *)
(***************************************************************************)
MaxScanLines == 4

LaterTimestampLine == <<"01/02/2023", " ", "15:04:05", " ", "PM">>
TimestampKeyLine == <<"Timestamp", "=", "created">>

ScanLinePool ==
    {TimestampLine, LaterTimestampLine, EventCodeLine, MessageLine, TimestampKeyLine,
     IndentedNewProcessLine, BlankLine}

InitScan ==
    /\ source \in SeqsOf(ScanLinePool, MaxScanLines)
    /\ max_events \in {0, 1, 2}
    /\ scanner = ScanStart
    /\ lineno = 0
    /\ events = <<>>
    /\ format_type = "keyvalue"
    /\ allowed_eids = {}
    /\ G = <<>>
    /\ pc = "scan"
    /\ SampleIdle
    /\ ScoreIdle
    /\ PipeIdle
    /\ NodeIdle
    /\ LoadIdle
    /\ StixIdle

ScanNextLine ==
    /\ pc = "scan"
    /\ lineno < Len(source)
    /\ scanner' = ScanLine(scanner, source[lineno + 1], max_events)
    /\ lineno' = lineno + 1
    /\ IF scanner'.returned
           THEN events' = scanner'.events /\ pc' = "returned"
           ELSE UNCHANGED <<events, pc>>
    /\ UNCHANGED <<sampleVars, loadVars, stixVars, scoreVars, pipeVars_data, nodeVars,
                   source, max_events, format_type, allowed_eids, G>>

ScanEnd ==
    /\ pc = "scan"
    /\ lineno = Len(source)
    /\ events' = IF scanner.current_event # <<>>
                     THEN Append(scanner.events, _finalize_event(scanner.current_event))
                     ELSE scanner.events
    /\ pc' = "returned"
    /\ UNCHANGED <<sampleVars, scanVars, loadVars, stixVars, scoreVars, pipeVars_data, nodeVars,
                   source, max_events, format_type, allowed_eids, G>>

NextScan == ScanNextLine \/ ScanEnd

SpecScan == InitScan /\ [][NextScan]_vars

\* the line-by-line scan returns what parse_keyvalue_events returns
ScanIsParse ==
    pc = "returned" => events = parse_keyvalue_events(source, max_events)

(***************************************************************************)
(* Claims about the events of the key-value scan                           *)
(***************************************************************************)
IsTimestampLine(line) == TIMESTAMP_RE(Strip(line))

\* the indices of the timestamp lines of the file, and the block the k-th of
\* them opens: the lines from it up to the next timestamp line
TimestampIndices(lines) == {i \in DOMAIN lines : IsTimestampLine(lines[i])}
Opening(lines, k) ==
    CHOOSE i \in TimestampIndices(lines) :
        Cardinality({j \in TimestampIndices(lines) : j <= i}) = k
BlockOf(lines, k) ==
    LET first == Opening(lines, k)
        later == {i \in TimestampIndices(lines) : i > first}
        last == IF later = {} THEN Len(lines)
                ELSE (CHOOSE i \in later : \A j \in later : i <= j) - 1
    IN  SubSeq(lines, first, last)

\* one event for every timestamp line, in file order, each with its opening
\* line as Timestamp and with the fields of the lines of its block only
OneEventPerTimestampLine(evs, lines) ==
    /\ Len(evs) = Cardinality(TimestampIndices(lines))
    /\ \A k \in DOMAIN evs :
        /\ evs[k]["Timestamp"] = Strip(lines[Opening(lines, k)])
        /\ evs[k] = parse_keyvalue_events(BlockOf(lines, k), 0)[1]

FirstEvents(evs, n) == SubSeq(evs, 1, IF Len(evs) < n THEN Len(evs) ELSE n)

\* C26: with max_events = 0 parse_keyvalue_events returns one event for
\* every timestamp line, in file order, whose Timestamp is that line and
\* whose fields come from the lines up to the next timestamp line (a line
\* before the first timestamp line is in no event); with max_events = n > 0
\* it returns the first n of those events.
C26_OneEventPerTimestampLine ==
    pc = "returned" =>
        /\ max_events = 0 => OneEventPerTimestampLine(events, source)
        /\ max_events > 0 =>
               /\ OneEventPerTimestampLine(parse_keyvalue_events(source, 0), source)
               /\ events = FirstEvents(parse_keyvalue_events(source, 0), max_events)

\* the same for the files without a line that sets the key Timestamp
C26_WithoutTimestampKey ==
    (pc = "returned" /\ \A i \in DOMAIN source : source[i] # TimestampKeyLine) =>
        /\ max_events = 0 => OneEventPerTimestampLine(events, source)
        /\ max_events > 0 =>
               /\ OneEventPerTimestampLine(parse_keyvalue_events(source, 0), source)
               /\ events = FirstEvents(parse_keyvalue_events(source, 0), max_events)

(***************************************************************************)
(* Claims about the message continuation of the key-value scan             *)
(***************************************************************************)
\* an unindented line whose key is Message
IsMessageLine(line) ==
    /\ "=" \in Range(line)
    /\ Head(line) \notin {" ", "\t"}
    /\ Strip(BeforeEquals(line)) = <<"Message">>

\* C27: a Message= line read in an event starts the message continuation;
\* while it lasts, a line that is no timestamp line is appended to Message
\* after a line feed, whatever it is, and changes no other field, no key, no
\* returned event and not the continuation; a timestamp line opens the next
\* event with the continuation off.
C27_MessageContinuationUntilTimestamp ==
    [][(pc = "scan" /\ lineno < Len(source)) =>
        LET line == source[lineno + 1]
            ev == scanner.current_event
        IN  /\ (ev # <<>> /\ ~scanner.in_message /\ ~IsTimestampLine(line)
                    /\ IsMessageLine(line)) =>
                   /\ scanner'.in_message
                   /\ scanner'.current_key = "Message"
            /\ (scanner.in_message /\ ~IsTimestampLine(line)) =>
                   /\ scanner'.in_message
                   /\ scanner'.current_key = "Message"
                   /\ scanner'.events = scanner.events
                   /\ scanner'.current_event =
                          SetItem(ev, "Message", Get(ev, "Message") \o <<"\n">> \o line)
            /\ (scanner.in_message /\ IsTimestampLine(line) /\ ~scanner'.returned) =>
                   /\ ~scanner'.in_message
                   /\ scanner'.current_event = ("Timestamp" :> Strip(line))]_vars

\* an event in message continuation whose Message took an unindented
\* Key=Value line, the key of which is no field of the event
C27_Witness ==
    /\ pc = "scan"
    /\ scanner.in_message
    /\ lineno >= 3
    /\ source[lineno] = EventCodeLine
    /\ Get(scanner.current_event, "Message")
           = <<"created", "\n">> \o EventCodeLine
    /\ "EventCode" \notin DOMAIN scanner.current_event

(***************************************************************************)
(* The coverage sampler: phase 2 of analyze_coverage (dettect/coverage.py  *)
(* 53-124).  A record is a file on disk; the dict detected is a function   *)
(* component name -> [count, sources], sources a set until line 122 makes  *)
(* it a sorted list.  A label is the str of its atoms.                     *)
(***************************************************************************)
MaxSampled == 3

\* dettect/mappings.py: (format_type, event id) -> data component name
EVENT_TO_DATA_COMPONENT ==
    <<"xml_sysmon", "1">> :> "Process Creation"
    @@ <<"xml_sysmon", "2">> :> "File Modification"
    @@ <<"xml_sysmon", "3">> :> "Network Connection Creation"
    @@ <<"xml_sysmon", "5">> :> "Process Termination"
    @@ <<"xml_sysmon", "6">> :> "Driver Load"
    @@ <<"xml_sysmon", "7">> :> "Module Load"
    @@ <<"xml_sysmon", "8">> :> "OS API Execution"
    @@ <<"xml_sysmon", "9">> :> "File Access"
    @@ <<"xml_sysmon", "10">> :> "Process Access"
    @@ <<"xml_sysmon", "11">> :> "File Creation"
    @@ <<"xml_sysmon", "12">> :> "Windows Registry Key Creation"
    @@ <<"xml_sysmon", "13">> :> "Windows Registry Key Modification"
    @@ <<"xml_sysmon", "14">> :> "Windows Registry Key Modification"
    @@ <<"xml_sysmon", "15">> :> "File Creation"
    @@ <<"xml_sysmon", "17">> :> "Named Pipe Creation"
    @@ <<"xml_sysmon", "18">> :> "Named Pipe Connection"
    @@ <<"xml_sysmon", "22">> :> "Network Connection Creation"
    @@ <<"xml_sysmon", "23">> :> "File Deletion"
    @@ <<"xml_sysmon", "25">> :> "Process Modification"
    @@ <<"xml_sysmon", "26">> :> "File Deletion"
    @@ <<"keyvalue", "4688">> :> "Process Creation"
    @@ <<"keyvalue", "592">> :> "Process Creation"
    @@ <<"keyvalue", "4689">> :> "Process Termination"
    @@ <<"keyvalue", "4624">> :> "Logon Session Creation"
    @@ <<"keyvalue", "4625">> :> "Logon Session Creation"
    @@ <<"keyvalue", "4634">> :> "Logon Session Metadata"
    @@ <<"keyvalue", "4648">> :> "Logon Session Creation"
    @@ <<"keyvalue", "4663">> :> "File Access"
    @@ <<"keyvalue", "4670">> :> "File Modification"
    @@ <<"keyvalue", "4672">> :> "Logon Session Creation"
    @@ <<"keyvalue", "4720">> :> "User Account Creation"
    @@ <<"keyvalue", "4722">> :> "User Account Modification"
    @@ <<"keyvalue", "4724">> :> "User Account Modification"
    @@ <<"keyvalue", "4728">> :> "Group Modification"
    @@ <<"keyvalue", "4732">> :> "Group Modification"
    @@ <<"keyvalue", "4756">> :> "Group Modification"
    @@ <<"keyvalue", "4768">> :> "Active Directory Credential Request"
    @@ <<"keyvalue", "4769">> :> "Active Directory Credential Request"
    @@ <<"keyvalue", "4776">> :> "Active Directory Credential Request"
    @@ <<"keyvalue", "7045">> :> "Service Creation"
    @@ <<"keyvalue", "7036">> :> "Service Metadata"
    @@ <<"keyvalue", "4104">> :> "Script Execution"
    @@ <<"keyvalue", "4103">> :> "Script Execution"
    @@ <<"json", "cloudtrail">> :> "Cloud Service Enumeration"
    @@ <<"json", "AssumeRole">> :> "Cloud Service Enumeration"
    @@ <<"json", "ConsoleLogin">> :> "Logon Session Creation"
    @@ <<"json", "CreateUser">> :> "User Account Creation"
    @@ <<"json", "CreateAccessKey">> :> "User Account Modification"
    @@ <<"json", "PutBucketPolicy">> :> "Cloud Storage Modification"
    @@ <<"json", "RunInstances">> :> "Instance Creation"
    @@ <<"json", "StopInstances">> :> "Instance Modification"
    @@ <<"json", "TerminateInstances">> :> "Instance Deletion"
    @@ <<"json", "AuthorizeSecurityGroupIngress">> :> "Firewall Rule Modification"

_format_label(fmt) ==
    CASE fmt = "xml_sysmon" -> "Sysmon"
      [] fmt = "keyvalue" -> "WinSecurity"
      [] fmt = "json" -> "JSON"
      [] OTHER -> fmt

\* what r'<EventID[^>]*>(\d+)</EventID>' finds inside one atom
XmlEventIdsOf(atom) ==
    CASE atom = "<System><EventID>1</EventID><Computer>HOST</Computer></System><EventData><Data Name"
            -> <<"1">>
      [] atom = "'Sysmon'/><EventID>8</EventID><Security UserID" -> <<"8">>
      [] OTHER -> <<>>

\* xml_eid_re.findall(chunk)
xml_eid_re_findall(chunk) == Concat([i \in DOMAIN chunk |-> XmlEventIdsOf(chunk[i])])

\* the atoms \d+ matches
DigitAtoms == {"1", "8", "443", "4688"}

\* kv_eid_re.findall(chunk): r'^EventCode=(\d+)' at the start of each line
kv_eid_re_findall(chunk) ==
    LET at == SelectSeq([i \in DOMAIN chunk |-> i],
                        LAMBDA i : /\ (i = 1 \/ chunk[i - 1] = "\n")
                                   /\ i + 2 <= Len(chunk)
                                   /\ chunk[i] = "EventCode"
                                   /\ chunk[i + 1] = "="
                                   /\ chunk[i + 2] \in DigitAtoms)
    IN  [k \in DOMAIN at |-> chunk[at[k] + 2]]

\* lines 73-87: the format the sampler gives a chunk, and the ids it found
InlineFormat(chunk) ==
    LET xml_ids == xml_eid_re_findall(chunk)
        kv_ids == kv_eid_re_findall(chunk)
    IN  IF xml_ids # <<>> THEN [fmt |-> "xml_sysmon", event_ids |-> xml_ids]
        ELSE IF kv_ids # <<>> THEN [fmt |-> "keyvalue", event_ids |-> kv_ids]
        ELSE IF StartsWith(LStrip(chunk), "{") THEN [fmt |-> "json", event_ids |-> <<>>]
        ELSE [fmt |-> "none", event_ids |-> <<>>]

\* (mutant) the count and the labels of the last file replace what was there
AddDetectedOverwrites(det, dc, cnt, label) ==
    SetItem(det, dc, [count |-> cnt, sources |-> {label}])

\* lines 104-107, 191-194, 198-201: one more finding of a component
AddDetected(det, dc, cnt, label) ==
    LET old == IF dc \in DOMAIN det THEN det[dc] ELSE [count |-> 0, sources |-> {}]
    IN  SetItem(det, dc, [count |-> old.count + cnt,
                          sources |-> old.sources \cup {label}])

\* the keys of Counter(event_ids), in the order of their first occurrence
RECURSIVE CounterKeys(_)
CounterKeys(ids) ==
    IF ids = <<>> THEN <<>>
    ELSE LET before == CounterKeys(SubSeq(ids, 1, Len(ids) - 1))
         IN  IF ids[Len(ids)] \in Range(before) THEN before
             ELSE Append(before, ids[Len(ids)])

\* lines 97-107: the ids of one chunk counted into detected
RECURSIVE CountEventIds(_, _, _, _)
CountEventIds(det, fmt, event_ids, keys) ==
    IF keys = <<>> THEN det
    ELSE LET eid == Head(keys)
             cnt == Cardinality({i \in DOMAIN event_ids : event_ids[i] = eid})
             key == <<fmt, eid>>
             next == IF key \in DOMAIN EVENT_TO_DATA_COMPONENT
                         THEN AddDetected(det, EVENT_TO_DATA_COMPONENT[key], cnt,
                                          <<_format_label(fmt), " EID ", eid>>)
                         ELSE det
         IN  CountEventIds(next, fmt, event_ids, Tail(keys))

\* the atoms "[^"]+" matches, and what is between the quotes
JsonStringAtoms == {"\"CreateUser\"", "\"ListBuckets\"", "\"10.0.0.1\""}
Unquoted(atom) ==
    CASE atom = "\"CreateUser\"" -> Str("CreateUser")
      [] atom = "\"ListBuckets\"" -> Str("ListBuckets")
      [] atom = "\"10.0.0.1\"" -> Str("10.0.0.1")

\* re.search(rf'"{key}"\s*:\s*"([^"]+)"', line): group 1 of the leftmost
\* match, None if there is none
SearchKey(line, key) ==
    LET Value(i) ==
            LET j == SkipWhiteSpace(line, i + 1)
                k == SkipWhiteSpace(line, j + 1)
            IN  IF /\ line[i] = key
                   /\ j <= Len(line) /\ line[j] = ":"
                   /\ k <= Len(line) /\ line[k] \in JsonStringAtoms
                    THEN Unquoted(line[k]) ELSE None
        at == {i \in DOMAIN line : Value(i) # None}
    IN  IF at = {} THEN None ELSE Value(CHOOSE i \in at : \A j \in at : i <= j)

\* lines 173-182: the last value found for each key in the first 50 lines
RECURSIVE ScanPatterns(_, _)
ScanPatterns(patterns, lines) ==
    IF lines = <<>> THEN patterns
    ELSE LET line == RStripChar(Strip(Head(lines)), ",")
             Found(key, quoted) ==
                 IF line # <<>> /\ Contains(line, quoted) /\ SearchKey(line, quoted) # None
                     THEN SearchKey(line, quoted) ELSE patterns[key]
         IN  ScanPatterns([eventName |-> Found("eventName", "\"eventName\""),
                           eventSource |-> Found("eventSource", "\"eventSource\"")],
                          Tail(lines))

\* dettect/coverage.py 164-201
_detect_json_components(chunk, det) ==
    LET lines == SplitLines(chunk)
        first == SubSeq(lines, 1, IF Len(lines) < 50 THEN Len(lines) ELSE 50)
        event_name == ScanPatterns([eventName |-> None, eventSource |-> None],
                                   first).eventName
        key == <<"json", event_name[1]>>
        label == <<"CloudTrail", " ">> \o event_name
    IN  IF event_name = None THEN det
        ELSE IF key \in DOMAIN EVENT_TO_DATA_COMPONENT
            THEN AddDetected(det, EVENT_TO_DATA_COMPONENT[key], 1, label)
        ELSE AddDetected(det, "Cloud Service Enumeration", 1, label)

\* lines 66-69, 114-117: the chunk read, the file being readable
ReadChunk(rec, limit) ==
    ReadFile(rec.lines, IF rec.size < limit THEN rec.size ELSE limit)

\* lines 64-107: one turn of the loop over the sampled .log records
SampleLogRecord(det, rec) ==
    LET chunk == ReadChunk(rec, 512 * 1024)
        found == InlineFormat(chunk)
    IN  IF ~rec.readable THEN det
        ELSE IF found.fmt = "none" THEN det
        ELSE IF found.fmt = "json" THEN _detect_json_components(chunk, det)
        ELSE CountEventIds(det, found.fmt, found.event_ids, CounterKeys(found.event_ids))

\* lines 112-120: one turn of the loop over the sampled .json records
SampleJsonRecord(det, rec) ==
    IF ~rec.readable THEN det
    ELSE _detect_json_components(ReadChunk(rec, 256 * 1024), det)

\* str < str on the labels: the atoms of a label in the order of str
LabelAtomsInOrder ==
    <<" ", " EID ", "1", "10.0.0.1", "4688", "8", "CloudTrail", "CreateUser",
      "ListBuckets", "Sysmon", "WinSecurity">>
AtomRank(a) == CHOOSE i \in DOMAIN LabelAtomsInOrder : LabelAtomsInOrder[i] = a
RECURSIVE LabelLess(_, _)
LabelLess(a, b) ==
    IF b = <<>> THEN FALSE
    ELSE IF a = <<>> THEN TRUE
    ELSE IF Head(a) # Head(b) THEN AtomRank(Head(a)) < AtomRank(Head(b))
    ELSE LabelLess(Tail(a), Tail(b))

\* sorted(labels)
RECURSIVE sorted(_)
sorted(labels) ==
    IF labels = {} THEN <<>>
    ELSE LET least == CHOOSE l \in labels : \A m \in labels \ {l} : LabelLess(l, m)
         IN  <<least>> \o sorted(labels \ {least})

\* lines 122-124
SortedSources(det) ==
    [dc \in DOMAIN det |-> [count |-> det[dc].count, sources |-> sorted(det[dc].sources)]]

(***************************************************************************)
(* SpecSample: the sampler over at most MaxSampled records; each is a file *)
(* that can be read or one whose read fails                                *)
(***************************************************************************)
JsonLineListBuckets == <<"{", "\"eventName\"", ":", "\"ListBuckets\"", "}">>

SampleLogLines ==
    {<<XmlLineProcess>>, <<XmlLineProcess, XmlLineThread>>, <<XmlLineEmpty>>,
     <<LogNameLine, EventCodeLine>>, <<EventCodeLine, EventCodeLine>>,
     <<JsonLineUser>>, <<ArrayOpenLine, JsonLineUser>>, <<ExchangeLine>>}
SampleJsonLines ==
    {<<JsonLineUser>>, <<ArrayOpenLine, JsonLineListBuckets>>, <<ExchangeLine>>}

LogRecords ==
    {File(<<"sample", ".log">>, TRUE, TRUE, FileSize(lines), lines) :
        lines \in SampleLogLines}
    \cup {File(<<"sample", ".log">>, FALSE, FALSE, 0, <<>>)}
JsonRecords ==
    {File(<<"sample", ".json">>, TRUE, TRUE, FileSize(lines), lines) :
        lines \in SampleJsonLines}
    \cup {File(<<"sample", ".json">>, FALSE, FALSE, 0, <<>>)}

InitSample ==
    /\ sampled \in SeqsOf(LogRecords, MaxSampled)
    /\ json_sample \in SeqsOf(JsonRecords, MaxSampled - Len(sampled))
    /\ sample_pos = 0
    /\ sample_detected = <<>>
    /\ pc = "sampling"
    /\ ScanIdle
    /\ ScoreIdle
    /\ PipeIdle
    /\ NodeIdle
    /\ GraphIdle
    /\ LoadIdle
    /\ StixIdle

SampleLogFile ==
    /\ pc = "sampling"
    /\ sample_pos < Len(sampled)
    /\ sample_detected' = SampleLogRecord(sample_detected, sampled[sample_pos + 1])
    /\ sample_pos' = sample_pos + 1
    /\ UNCHANGED <<scanVars, loadVars, stixVars, scoreVars, pipeVars, nodeVars, graphVars,
                   sampled, json_sample>>

SampleJsonFile ==
    /\ pc = "sampling"
    /\ sample_pos >= Len(sampled)
    /\ sample_pos < Len(sampled) + Len(json_sample)
    /\ sample_detected' =
           SampleJsonRecord(sample_detected, json_sample[sample_pos - Len(sampled) + 1])
    /\ sample_pos' = sample_pos + 1
    /\ UNCHANGED <<scanVars, loadVars, stixVars, scoreVars, pipeVars, nodeVars, graphVars,
                   sampled, json_sample>>

SortSources ==
    /\ pc = "sampling"
    /\ sample_pos = Len(sampled) + Len(json_sample)
    /\ sample_detected' = SortedSources(sample_detected)
    /\ pc' = "sampled"
    /\ UNCHANGED <<scanVars, loadVars, stixVars, scoreVars, pipeVars_data, nodeVars,
                   graphVars, sampled, json_sample, sample_pos>>

NextSample == SampleLogFile \/ SampleJsonFile \/ SortSources

SpecSample == InitSample /\ [][NextSample]_vars

(***************************************************************************)
(* Claims about the coverage sampler                                       *)
(***************************************************************************)
\* the kind the inline classification gives the prefix read of a sampled
\* .log record (lines 73-87)
SamplerKind(rec) == InlineFormat(ReadChunk(rec, 512 * 1024)).fmt

\* the kind the structural rules of detect_format give the same prefix; the
\* sampler has no kind for 'exchange' and 'unknown', both count as none
DetectorKind(rec) ==
    LET kind == StructuralRules(LStrip(ReadChunk(rec, 512 * 1024)))
    IN  IF kind \in {"exchange", "unknown"} THEN "none" ELSE kind

\* C25: for every sampled file prefix the kind the sampler assigns
\* (xml_sysmon, keyvalue, json or none) is the kind the structural rules of
\* detect_format assign to that prefix
C25_SamplerAgreesWithDetector ==
    \A i \in DOMAIN sampled :
        sampled[i].readable => SamplerKind(sampled[i]) = DetectorKind(sampled[i])

\* the kinds agree on the .log records that open with what the sampler
\* looks for: an event with an EventID element, LogName= and EventCode= at
\* line starts, an opening brace
C25_AgreesOnWellFormedLogs ==
    \A i \in DOMAIN sampled :
        sampled[i].lines \in {<<XmlLineProcess>>, <<XmlLineProcess, XmlLineThread>>,
                              <<LogNameLine, EventCodeLine>>, <<JsonLineUser>>,
                              <<ExchangeLine>>}
            => SamplerKind(sampled[i]) = DetectorKind(sampled[i])

\* the bijections of 1..n
Orders(n) == {p \in [1..n -> 1..n] : \A i, j \in 1..n : p[i] = p[j] => i = j}

\* the records taken one after the other, each as its loop takes it
RECURSIVE SampleAll(_, _)
SampleAll(det, recs) ==
    IF recs = <<>> THEN det
    ELSE LET rec == Head(recs)
         IN  SampleAll(IF rec.path[Len(rec.path)] = ".json"
                           THEN SampleJsonRecord(det, rec)
                           ELSE SampleLogRecord(det, rec),
                       Tail(recs))

SampledRecords == sampled \o json_sample
Readable == SelectSeq(SampledRecords, LAMBDA rec : rec.readable)

\* C24: a sampled file whose read fails is skipped and the pass goes on;
\* the detected components (counts and sorted labels) are those of the
\* readable sampled files alone, taken in any order
C24_FailedReadsSkippedOrderFree ==
    pc = "sampled" =>
        \A p \in Orders(Len(Readable)) :
            sample_detected =
                SortedSources(SampleAll(<<>>, [i \in DOMAIN Readable |-> Readable[p[i]]]))

\* C24 witness: a pass over a file that cannot be read between two files
\* that add to the same component with different counts and labels
C24_Witness ==
    /\ pc = "sampled"
    /\ Len(SampledRecords) = 3
    /\ ~SampledRecords[2].readable
    /\ SampledRecords[1].readable /\ SampledRecords[3].readable
    /\ "Process Creation" \in DOMAIN sample_detected
    /\ sample_detected["Process Creation"].count = 3
    /\ Len(sample_detected["Process Creation"].sources) = 2

====
